---- MODULE Spec2Model ----
(***************************************************************************)
(* Quiz generator backend: the business-rule validator of generated        *)
(* quizzes, the conversion of a generated quiz into persisted entities,    *)
(* the generation pipeline of QuizService and the scoring of submissions.  *)
(*                                                                         *)
(* Text is a sequence of one-character strings, so that strip(), lower(),  *)
(* len() and the substring test are computed and not assumed.  A Python    *)
(* dict is a sequence of key/value records with distinct keys, in          *)
(* insertion order.                                                        *)
(***************************************************************************)
EXTENDS Integers, Sequences, FiniteSets, TLC

VARIABLES
    quiz_response,      \* the GeminiQuizResponse handed to the validator / builder
    expected_questions, \* the expected_questions argument of the validator
    accepted,           \* the validator's return value
    built,              \* the Quiz returned by _create_quiz_from_gemini_response
    pc,                 \* position of the pure-function harness
    quizzes,            \* committed rows of quizzes (with questions and options)
    attempts,           \* committed rows of quiz_attempts (with user_responses)
    gemini_service,     \* TRUE when the module-level GeminiService instance exists
    lastCall,           \* the request handled last
    lastResult,         \* what the handler returned for it
    session,            \* the open database session of a request that is being handled
    now                 \* the database clock, in units of its resolution

vars == <<quiz_response, expected_questions, accepted, built, pc,
          quizzes, attempts, gemini_service, lastCall, lastResult, session, now>>

-----------------------------------------------------------------------------
(* Bounds of the model *)

MaxQuestions == 2
MaxQuizzes == 2
MaxAnswers == 2
MaxAttempts == 1

-----------------------------------------------------------------------------
(* Settings (config.py) and literals of the services *)

default_options_per_question == 4
max_topic_length == 100
num_questions == 5
expected_letters == {"A", "B", "C", "D"}
inappropriate_keywords ==
    { <<"e","x","p","l","i","c","i","t">>,
      <<"n","s","f","w">>,
      <<"a","d","u","l","t">>,
      <<"v","i","o","l","e","n","c","e">> }

-----------------------------------------------------------------------------
(* str methods *)

Whitespace == {" ", "\t", "\n", "\r"}

UpperAlpha == <<"A","B","C","D","E","F","G","H","I","J","K","L","M",
                "N","O","P","Q","R","S","T","U","V","W","X","Y","Z">>
LowerAlpha == <<"a","b","c","d","e","f","g","h","i","j","k","l","m",
                "n","o","p","q","r","s","t","u","v","w","x","y","z">>

LowerChar(c) ==
    IF \E i \in 1..Len(UpperAlpha) : UpperAlpha[i] = c
    THEN LowerAlpha[CHOOSE i \in 1..Len(UpperAlpha) : UpperAlpha[i] = c]
    ELSE c

\* str.lower()
Lower(s) == [i \in 1..Len(s) |-> LowerChar(s[i])]

RECURSIVE LStrip(_)
LStrip(s) ==
    IF s = <<>> THEN s
    ELSE IF Head(s) \in Whitespace THEN LStrip(Tail(s)) ELSE s

RECURSIVE RStrip(_)
RStrip(s) ==
    IF s = <<>> THEN s
    ELSE IF s[Len(s)] \in Whitespace THEN RStrip(SubSeq(s, 1, Len(s) - 1)) ELSE s

\* str.strip()
Strip(s) == RStrip(LStrip(s))

\* needle in hay
Contains(needle, hay) ==
    \E i \in 1..(Len(hay) - Len(needle) + 1) :
        SubSeq(hay, i, i + Len(needle) - 1) = needle

\* dict.keys() as a set
Keys(d) == {d[j].k : j \in 1..Len(d)}

-----------------------------------------------------------------------------
(* GeminiService.validate_topic *)

\* as validate_topic, with the keywords searched in the topic as it was typed
validate_topic_case_sensitive(topic) ==
    IF topic = <<>> \/ Len(Strip(topic)) = 0 THEN FALSE
    ELSE IF Len(topic) > max_topic_length THEN FALSE
    ELSE \A keyword \in inappropriate_keywords : ~Contains(keyword, topic)

validate_topic(topic) ==
    IF topic = <<>> \/ Len(Strip(topic)) = 0 THEN FALSE
    ELSE IF Len(topic) > max_topic_length THEN FALSE
    ELSE \A keyword \in inappropriate_keywords : ~Contains(keyword, Lower(topic))

-----------------------------------------------------------------------------
(* GeminiService._validate_quiz_business_rules *)

\* as QuestionPasses, without the check of the option texts
QuestionPassesAnyOptionText(question) ==
    IF question.question = <<>> \/ Len(Strip(question.question)) = 0 THEN FALSE
    ELSE IF Len(question.options) # default_options_per_question THEN FALSE
    ELSE IF Keys(question.options) # expected_letters THEN FALSE
    ELSE question.correct_answer \in Keys(question.options)

\* as QuestionPasses, without the comparison of the letters with expected_letters
QuestionPassesAnyLetters(question) ==
    IF question.question = <<>> \/ Len(Strip(question.question)) = 0 THEN FALSE
    ELSE IF Len(question.options) # default_options_per_question THEN FALSE
    ELSE IF question.correct_answer \notin Keys(question.options) THEN FALSE
    ELSE \A j \in 1..Len(question.options) :
            ~(question.options[j].v = <<>> \/ Len(Strip(question.options[j].v)) = 0)

\* as QuestionPasses, without the check that correct_answer is an option letter
QuestionPassesAnyCorrectAnswer(question) ==
    IF question.question = <<>> \/ Len(Strip(question.question)) = 0 THEN FALSE
    ELSE IF Len(question.options) # default_options_per_question THEN FALSE
    ELSE IF Keys(question.options) # expected_letters THEN FALSE
    ELSE \A j \in 1..Len(question.options) :
            ~(question.options[j].v = <<>> \/ Len(Strip(question.options[j].v)) = 0)

\* the body of the loop over the questions: TRUE when no check returns False
QuestionPasses(question) ==
    IF question.question = <<>> \/ Len(Strip(question.question)) = 0 THEN FALSE
    ELSE IF Len(question.options) # default_options_per_question THEN FALSE
    ELSE IF Keys(question.options) # expected_letters THEN FALSE
    ELSE IF question.correct_answer \notin Keys(question.options) THEN FALSE
    ELSE \A j \in 1..Len(question.options) :
            ~(question.options[j].v = <<>> \/ Len(Strip(question.options[j].v)) = 0)

\* as _validate_quiz_business_rules, with the number of questions as the only rule
_validate_quiz_business_rules_count_only(response, expected) ==
    Len(response.questions) = expected

_validate_quiz_business_rules(response, expected) ==
    IF Len(response.questions) # expected THEN FALSE
    ELSE \A i \in 1..Len(response.questions) : QuestionPasses(response.questions[i])

-----------------------------------------------------------------------------
(* QuizService._create_quiz_from_gemini_response *)

\* as BuildOption, flagging the option "A" whatever the correct answer is
BuildOptionFirstLetter(item, correct_answer) ==
    [ option_text   |-> item.v,
      option_letter |-> item.k,
      is_correct    |-> (item.k = "A") ]

\* the QuestionOption built for one (letter, option_text) item of the dict
BuildOption(item, correct_answer) ==
    [ option_text   |-> item.v,
      option_letter |-> item.k,
      is_correct    |-> (item.k = correct_answer) ]

\* as BuildQuestion, with the 0-based index as question_order
BuildQuestionZeroBased(idx, q_data) ==
    [ question_text  |-> q_data.question,
      question_order |-> idx,
      options        |-> [j \in 1..Len(q_data.options) |->
                              [ option_text   |-> q_data.options[j].v,
                                option_letter |-> q_data.options[j].k,
                                is_correct    |-> (q_data.options[j].k = q_data.correct_answer) ]] ]

\* the Question built for q_data at position idx of enumerate() (0-based)
BuildQuestion(idx, q_data) ==
    [ question_text  |-> q_data.question,
      question_order |-> idx + 1,
      options        |-> [j \in 1..Len(q_data.options) |->
                              BuildOption(q_data.options[j], q_data.correct_answer)] ]

_create_quiz_from_gemini_response(gemini_response) ==
    [ topic     |-> gemini_response.topic,
      questions |-> [i \in 1..Len(gemini_response.questions) |->
                         BuildQuestion(i - 1, gemini_response.questions[i])] ]

-----------------------------------------------------------------------------
(* Inputs: texts, option dicts, generated questions, topics *)

Txt(c) == <<c>>
EmptyText == <<>>
BlankText == <<" ", "\t">>

Opt(letter, text) == [k |-> letter, v |-> text]

OptionsABCD == << Opt("A", Txt("3")), Opt("B", Txt("4")), Opt("C", Txt("5")), Opt("D", Txt("6")) >>
OptionsDCBA == << Opt("D", Txt("8")), Opt("C", Txt("7")), Opt("B", Txt("6")), Opt("A", Txt("5")) >>

GenQ(text, options, correct) ==
    [question |-> text, options |-> options, correct_answer |-> correct]

GoodQuestionB == GenQ(<<"Q","1">>, OptionsABCD, "B")
GoodQuestionD == GenQ(<<" ","Q","2">>, OptionsDCBA, "D")

QuestionPool ==
    { GoodQuestionB,
      GoodQuestionD,
      GenQ(EmptyText, OptionsABCD, "B"),
      GenQ(BlankText, OptionsABCD, "B"),
      GenQ(<<"Q","3">>, SubSeq(OptionsABCD, 1, 3), "A"),
      GenQ(<<"Q","4">>, OptionsABCD \o << Opt("E", Txt("7")) >>, "A"),
      GenQ(<<"Q","5">>, SubSeq(OptionsABCD, 1, 3) \o << Opt("E", Txt("7")) >>, "A"),
      GenQ(<<"Q","6">>, OptionsABCD, "E"),
      GenQ(<<"Q","7">>, << Opt("A", EmptyText), Opt("B", Txt("4")), Opt("C", Txt("5")), Opt("D", Txt("6")) >>, "B"),
      GenQ(<<"Q","8">>, << Opt("A", Txt("3")), Opt("B", Txt("4")), Opt("C", Txt("5")), Opt("D", BlankText) >>, "C") }

TopicRome == <<"R","o","m","e">>
TopicEmpty == <<>>
TopicBlank == <<" "," "," ">>
TopicMax == [i \in 1..max_topic_length |-> "a"]
TopicTooLong == [i \in 1..(max_topic_length + 1) |-> "a"]
TopicPadded == [i \in 1..(max_topic_length + 1) |-> IF i = 1 THEN "b" ELSE " "]
TopicNsfw == <<"N","S","F","W"," ","x">>
TopicExplicit == <<"m","y"," ","e","x","p","l","i","c","i","t">>
TopicAdult == <<"A","d","U","l","T">>
TopicViolence == <<"v","i","o","l","e","n","c","e","s">>

CandidateTopics == {TopicRome, TopicEmpty, TopicTooLong, TopicNsfw}

SeqsUpTo(S, n) == UNION { [1..m -> S] : m \in 0..n }

NoQuiz == [topic |-> <<>>, questions |-> <<>>]
NoCall == [op |-> "none"]
NoResult == [status |-> "none"]
NoSession == [pc |-> "closed"]

-----------------------------------------------------------------------------
(* The validator and the builder as pure functions of their arguments *)

CandidateInit ==
    /\ quiz_response \in
          { [topic |-> t, questions |-> qs] :
                t \in CandidateTopics, qs \in SeqsUpTo(QuestionPool, MaxQuestions) }
    /\ expected_questions \in 0..MaxQuestions
    /\ accepted = FALSE
    /\ built = NoQuiz
    /\ pc = "input"
    /\ quizzes = <<>>
    /\ attempts = <<>>
    /\ gemini_service = TRUE
    /\ lastCall = NoCall
    /\ lastResult = NoResult
    /\ session = NoSession
    /\ now = 0

Validate ==
    /\ pc = "input"
    /\ accepted' = _validate_quiz_business_rules(quiz_response, expected_questions)
    /\ pc' = "validated"
    /\ UNCHANGED <<quiz_response, expected_questions, built,
                   quizzes, attempts, gemini_service, lastCall, lastResult,
                   session, now>>

Build ==
    /\ pc = "validated"
    /\ built' = _create_quiz_from_gemini_response(quiz_response)
    /\ pc' = "built"
    /\ UNCHANGED <<quiz_response, expected_questions, accepted,
                   quizzes, attempts, gemini_service, lastCall, lastResult,
                   session, now>>

CandidateNext == Validate \/ Build

CandidateSpec == CandidateInit /\ [][CandidateNext]_vars

-----------------------------------------------------------------------------
(* GeminiService.generate_quiz: what the gateway returns for one outcome   *)
(* of the model call                                                       *)

NoResponse == [ok |-> FALSE, value |-> NoQuiz]

\* as gemini_generate_quiz, returning the parsed response without validating it
gemini_generate_quiz_unvalidated(outcome, expected) ==
    IF outcome.kind # "candidate" THEN NoResponse
    ELSE [ok |-> TRUE, value |-> outcome.candidate]

\* as gemini_generate_quiz, validating for the number of questions of the
\* candidate
gemini_generate_quiz_any_count(outcome, expected) ==
    IF outcome.kind # "candidate" THEN NoResponse
    ELSE IF ~_validate_quiz_business_rules(outcome.candidate,
                                           Len(outcome.candidate.questions))
    THEN NoResponse
    ELSE [ok |-> TRUE, value |-> outcome.candidate]

gemini_generate_quiz(outcome, expected) ==
    IF outcome.kind # "candidate" THEN NoResponse
    ELSE IF ~_validate_quiz_business_rules(outcome.candidate, expected) THEN NoResponse
    ELSE [ok |-> TRUE, value |-> outcome.candidate]

-----------------------------------------------------------------------------
(* Persistence: the rows a committed Quiz aggregate gets *)

RECURSIVE CountQuestions(_)
CountQuestions(qz) ==
    IF qz = <<>> THEN 0 ELSE Len(Head(qz).questions) + CountQuestions(Tail(qz))

RECURSIVE CountOptionsOf(_)
CountOptionsOf(qs) ==
    IF qs = <<>> THEN 0 ELSE Len(Head(qs).options) + CountOptionsOf(Tail(qs))

RECURSIVE CountOptions(_)
CountOptions(qz) ==
    IF qz = <<>> THEN 0 ELSE CountOptionsOf(Head(qz).questions) + CountOptions(Tail(qz))

\* INSERT of the aggregate: integer primary keys continue after the rows present
Persist(quiz, rows) ==
    [ id        |-> Len(rows) + 1,
      topic     |-> quiz.topic,
      questions |-> [i \in 1..Len(quiz.questions) |->
          [ id             |-> CountQuestions(rows) + i,
            question_text  |-> quiz.questions[i].question_text,
            question_order |-> quiz.questions[i].question_order,
            options        |-> [j \in 1..Len(quiz.questions[i].options) |->
                [ id            |-> CountOptions(rows)
                                      + CountOptionsOf(SubSeq(quiz.questions, 1, i - 1)) + j,
                  option_text   |-> quiz.questions[i].options[j].option_text,
                  option_letter |-> quiz.questions[i].options[j].option_letter,
                  is_correct    |-> quiz.questions[i].options[j].is_correct ]] ]] ]

-----------------------------------------------------------------------------
(* QuizService.generate_quiz *)

Topics == {TopicRome, TopicEmpty, TopicBlank, TopicMax, TopicTooLong, TopicPadded,
           TopicNsfw, TopicExplicit, TopicAdult, TopicViolence}

BaseQuestions(n) == [i \in 1..n |-> IF i % 2 = 1 THEN GoodQuestionB ELSE GoodQuestionD]

\* question lists the model may answer with: the requested number of questions,
\* one more or one less, with any one question of the pool first or last
ModelQuestionLists ==
    UNION { { [i \in 1..n |-> IF i = k THEN q ELSE BaseQuestions(n)[i]] :
                  k \in {1, n}, q \in QuestionPool } :
            n \in (num_questions - 1)..(num_questions + 1) }

\* outcome.kind: "api_error" (generate_content_async raises), "empty" (no
\* response text), "malformed" (json.loads raises), "schema" (the JSON does not
\* construct a GeminiQuizResponse), "candidate" (a GeminiQuizResponse was built)
ModelOutcomes(topic) ==
    { [kind |-> kd, candidate |-> NoQuiz] : kd \in {"api_error", "empty", "malformed", "schema"} }
    \cup
    { [kind |-> "candidate", candidate |-> [topic |-> t, questions |-> qs]] :
          t \in {topic, TopicEmpty}, qs \in ModelQuestionLists }

GenCall(topic, called, kind, fails) ==
    [op |-> "generate_quiz", topic |-> topic, model_called |-> called,
     outcome |-> kind, db_fails |-> fails]

\* validate_topic fails or there is no service: return None
GenerateRejected(topic) ==
    /\ lastCall' = GenCall(topic, FALSE, "none", "none")
    /\ lastResult' = [status |-> "none", quiz |-> NoQuiz]
    /\ UNCHANGED quizzes

\* the gateway returns None: return None
GenerateNoResponse(topic, outcome) ==
    /\ lastCall' = GenCall(topic, TRUE, outcome.kind, "none")
    /\ lastResult' = [status |-> "none", quiz |-> NoQuiz]
    /\ UNCHANGED quizzes

\* build, add, commit, refresh; on an exception rollback and return None.
\* db_fails: the call that raises ("none", "commit" or "refresh"); a rollback
\* after the commit undoes nothing
GeneratePersist(topic, gemini_response, db_fails) ==
    /\ LET quiz == _create_quiz_from_gemini_response(gemini_response)
           row  == Persist(quiz, quizzes)
       IN  /\ quizzes' = IF db_fails = "commit" THEN quizzes ELSE Append(quizzes, row)
           /\ lastResult' = IF db_fails = "none"
                            THEN [status |-> "ok", quiz |-> row]
                            ELSE [status |-> "none", quiz |-> NoQuiz]
    /\ lastCall' = GenCall(topic, TRUE, "candidate", db_fails)

GenerateQuiz ==
    /\ Len(quizzes) < MaxQuizzes
    /\ \E topic \in Topics :
          IF ~gemini_service \/ ~validate_topic(topic)
          THEN GenerateRejected(topic)
          ELSE \E outcome \in ModelOutcomes(topic) :
                  LET gemini_response == gemini_generate_quiz(outcome, num_questions)
                  IN  IF ~gemini_response.ok
                      THEN GenerateNoResponse(topic, outcome)
                      ELSE \E db_fails \in {"none", "commit", "refresh"} :
                              GeneratePersist(topic, gemini_response.value, db_fails)
    /\ UNCHANGED <<quiz_response, expected_questions, accepted, built, pc,
                   attempts, gemini_service, session, now>>

Init ==
    /\ quiz_response = NoQuiz
    /\ expected_questions = 0
    /\ accepted = FALSE
    /\ built = NoQuiz
    /\ pc = "idle"
    /\ quizzes = <<>>
    /\ attempts = <<>>
    /\ gemini_service \in BOOLEAN
    /\ lastCall = NoCall
    /\ lastResult = NoResult
    /\ session = NoSession
    /\ now = 0

Next == GenerateQuiz

Spec == Init /\ [][Next]_vars

-----------------------------------------------------------------------------
(* QuizService.submit_quiz_answers *)

\* get_quiz_by_id: position of the row in quizzes, 0 for None
QuizIndex(rows, quiz_id) ==
    IF \E i \in 1..Len(rows) : rows[i].id = quiz_id
    THEN CHOOSE i \in 1..Len(rows) :
            rows[i].id = quiz_id /\ \A h \in 1..(i - 1) : rows[h].id # quiz_id
    ELSE 0

\* next(x for x in items if x.id == id, None): position of the first match, 0 for None
FirstWithId(items, id) ==
    IF \E i \in 1..Len(items) : items[i].id = id
    THEN CHOOSE i \in 1..Len(items) :
            items[i].id = id /\ \A h \in 1..(i - 1) : items[h].id # id
    ELSE 0

\* next(opt for opt in question.options if opt.is_correct, None)
FirstCorrect(options) ==
    IF \E j \in 1..Len(options) : options[j].is_correct
    THEN CHOOSE j \in 1..Len(options) :
            options[j].is_correct /\ \A h \in 1..(j - 1) : ~options[h].is_correct
    ELSE 0

NotApplicable == <<"N","/","A">>

RECURSIVE CountResponses(_)
CountResponses(rows) ==
    IF rows = <<>> THEN 0 ELSE Len(Head(rows).responses) + CountResponses(Tail(rows))

NoProgress == [correct_count |-> 0, responses |-> <<>>, correct_answers |-> <<>>]

RECURSIVE OptionsOfAll(_)
OptionsOfAll(questions) ==
    IF questions = <<>> THEN <<>>
    ELSE Head(questions).options \o OptionsOfAll(Tail(questions))

\* as ProcessAnswer, with the selected option looked up among the options of
\* every question of the quiz
ProcessAnswerAnyOption(quiz, attempt_id, next_response_id, acc, answer) ==
    LET qi == FirstWithId(quiz.questions, answer.question_id) IN
    IF qi = 0 THEN acc
    ELSE
    LET question == quiz.questions[qi]
        options == OptionsOfAll(quiz.questions)
        oi == FirstWithId(options, answer.selected_option_id)
    IN
    IF oi = 0 THEN acc
    ELSE
    LET selected_option == options[oi]
        is_correct == selected_option.is_correct
        ci == FirstCorrect(question.options)
    IN
    [ correct_count |-> IF is_correct THEN acc.correct_count + 1 ELSE acc.correct_count,
      responses |-> Append(acc.responses,
          [ id                 |-> next_response_id + Len(acc.responses),
            attempt_id         |-> attempt_id,
            question_id        |-> question.id,
            selected_option_id |-> selected_option.id,
            is_correct         |-> is_correct ]),
      correct_answers |-> Append(acc.correct_answers,
          [ question_id        |-> question.id,
            question_text      |-> question.question_text,
            correct_option     |-> IF ci # 0 THEN <<question.options[ci].option_letter>>
                                   ELSE NotApplicable,
            correct_text       |-> IF ci # 0 THEN question.options[ci].option_text
                                   ELSE NotApplicable,
            user_selected      |-> <<selected_option.option_letter>>,
            user_selected_text |-> selected_option.option_text,
            is_correct         |-> is_correct ]) ]

\* one iteration of the loop over submission.answers
ProcessAnswer(quiz, attempt_id, next_response_id, acc, answer) ==
    LET qi == FirstWithId(quiz.questions, answer.question_id) IN
    IF qi = 0 THEN acc
    ELSE
    LET question == quiz.questions[qi]
        oi == FirstWithId(question.options, answer.selected_option_id)
    IN
    IF oi = 0 THEN acc
    ELSE
    LET selected_option == question.options[oi]
        is_correct == selected_option.is_correct
        ci == FirstCorrect(question.options)
    IN
    [ correct_count |-> IF is_correct THEN acc.correct_count + 1 ELSE acc.correct_count,
      responses |-> Append(acc.responses,
          [ id                 |-> next_response_id + Len(acc.responses),
            attempt_id         |-> attempt_id,
            question_id        |-> question.id,
            selected_option_id |-> selected_option.id,
            is_correct         |-> is_correct ]),
      correct_answers |-> Append(acc.correct_answers,
          [ question_id        |-> question.id,
            question_text      |-> question.question_text,
            correct_option     |-> IF ci # 0 THEN <<question.options[ci].option_letter>>
                                   ELSE NotApplicable,
            correct_text       |-> IF ci # 0 THEN question.options[ci].option_text
                                   ELSE NotApplicable,
            user_selected      |-> <<selected_option.option_letter>>,
            user_selected_text |-> selected_option.option_text,
            is_correct         |-> is_correct ]) ]

\* as ProcessAnswers, with the loop left at the first answer whose question is
\* not found
RECURSIVE ProcessAnswersUntilUnknown(_, _, _, _, _)
ProcessAnswersUntilUnknown(quiz, attempt_id, next_response_id, acc, answers) ==
    IF answers = <<>> THEN acc
    ELSE IF FirstWithId(quiz.questions, Head(answers).question_id) = 0 THEN acc
    ELSE ProcessAnswersUntilUnknown(quiz, attempt_id, next_response_id,
                        ProcessAnswer(quiz, attempt_id, next_response_id, acc, Head(answers)),
                        Tail(answers))

\* as ProcessAnswers, with the answers taken from the last to the first
RECURSIVE ProcessAnswersLastFirst(_, _, _, _, _)
ProcessAnswersLastFirst(quiz, attempt_id, next_response_id, acc, answers) ==
    IF answers = <<>> THEN acc
    ELSE ProcessAnswer(quiz, attempt_id, next_response_id,
                       ProcessAnswersLastFirst(quiz, attempt_id, next_response_id,
                                               acc, Tail(answers)),
                       Head(answers))

RECURSIVE ProcessAnswers(_, _, _, _, _)
ProcessAnswers(quiz, attempt_id, next_response_id, acc, answers) ==
    IF answers = <<>> THEN acc
    ELSE ProcessAnswers(quiz, attempt_id, next_response_id,
                        ProcessAnswer(quiz, attempt_id, next_response_id, acc, Head(answers)),
                        Tail(answers))

\* as RoundHundredths, cut off after the second decimal place
RoundHundredthsDown(a, b) == (a * 100) \div b

\* round(x, 2) of the quotient a / b, in hundredths (ties to even)
RoundHundredths(a, b) ==
    LET q == (a * 100) \div b
        r == (a * 100) % b
    IN  IF 2 * r < b THEN q
        ELSE IF 2 * r > b THEN q + 1
        ELSE IF q % 2 = 0 THEN q ELSE q + 1

\* as Percentage, without the multiplication by 100
PercentageAsFraction(correct_count, total) ==
    IF total # 0 THEN RoundHundredths(correct_count, total) ELSE 0

\* round((correct_count / len(quiz.questions)) * 100 if quiz.questions else 0, 2),
\* in hundredths of a percent
Percentage(correct_count, total) ==
    IF total # 0 THEN RoundHundredths(correct_count * 100, total) ELSE 0

\* as FinalAttempt, with the number of recorded answers as total_questions
FinalAttemptCountsAnswers(quiz, attempt_id, progress) ==
    [ id              |-> attempt_id,
      quiz_id         |-> quiz.id,
      total_questions |-> Len(progress.responses),
      score           |-> progress.correct_count,
      responses       |-> progress.responses ]

\* as FinalAttempt, committed with the score it was created with
FinalAttemptPlaceholder(quiz, attempt_id, progress) ==
    [ id              |-> attempt_id,
      quiz_id         |-> quiz.id,
      total_questions |-> Len(quiz.questions),
      score           |-> 0,
      responses       |-> progress.responses ]

\* the QuizAttempt row as committed: created with score 0, score set before commit
FinalAttempt(quiz, attempt_id, progress) ==
    [ id              |-> attempt_id,
      quiz_id         |-> quiz.id,
      total_questions |-> Len(quiz.questions),
      score           |-> progress.correct_count,
      responses       |-> progress.responses ]

QuizResult(quiz, progress) ==
    [ status          |-> "ok",
      score           |-> progress.correct_count,
      total_questions |-> Len(quiz.questions),
      percentage      |-> Percentage(progress.correct_count, Len(quiz.questions)),
      correct_answers |-> progress.correct_answers ]

-----------------------------------------------------------------------------
(* Submissions *)

Answer(question_id, option_id) ==
    [question_id |-> question_id, selected_option_id |-> option_id]

WrongOption(options) == CHOOSE j \in 1..Len(options) : ~options[j].is_correct

\* an id that is no question of quiz: a question of another quiz when there is
\* one, else an id of no row
ForeignQuestionId(rows, quiz) ==
    IF \E i \in 1..Len(rows) : rows[i].id # quiz.id
    THEN (CHOOSE r \in {rows[i] : i \in 1..Len(rows)} : r.id # quiz.id).questions[1].id
    ELSE CountQuestions(rows) + 1

AnswerPool(rows, quiz) ==
    LET q1 == quiz.questions[1]
        q2 == quiz.questions[2]
    IN  { Answer(q1.id, q1.options[FirstCorrect(q1.options)].id),
          Answer(q2.id, q2.options[WrongOption(q2.options)].id),
          Answer(q1.id, q2.options[1].id),
          Answer(q1.id, CountOptions(rows) + 1),
          Answer(ForeignQuestionId(rows, quiz), q1.options[1].id) }

\* the correct option of every question, in question order
AllCorrect(quiz) ==
    [i \in 1..Len(quiz.questions) |->
        Answer(quiz.questions[i].id,
               quiz.questions[i].options[FirstCorrect(quiz.questions[i].options)].id)]

\* the same answer n times
Repeated(answer, n) == [i \in 1..n |-> answer]

\* every list of up to MaxAnswers answers of the pool, every question answered
\* correctly, and the first question answered correctly once more than the
\* quiz has questions
AnswerLists(rows, quiz) ==
    SeqsUpTo(AnswerPool(rows, quiz), MaxAnswers)
    \cup {AllCorrect(quiz), Repeated(AllCorrect(quiz)[1], Len(quiz.questions) + 1)}

\* submissions to the first quiz with every answer list, to the other quizzes
\* with no answer or every correct answer, and to a quiz that does not exist
Submissions(rows) ==
    { [quiz_id |-> rows[1].id, answers |-> a] : a \in AnswerLists(rows, rows[1]) }
    \cup UNION { { [quiz_id |-> rows[i].id, answers |-> a] : a \in {<<>>, AllCorrect(rows[i])} } :
                 i \in 2..Len(rows) }
    \cup { [quiz_id |-> Len(rows) + 1, answers |-> <<Answer(1, 1)>>] }

\* the row of a QuizAttempt as the database stores it: attempted_at is the
\* server default, the time of the database clock t when the row is inserted
Inserted(attempt, t) ==
    [f \in DOMAIN attempt \cup {"attempted_at"} |->
        IF f = "attempted_at" THEN t ELSE attempt[f]]

SubmitCall(submission, db_fails) ==
    [op |-> "submit_quiz_answers", submission |-> submission, db_fails |-> db_fails]

\* the quiz is not found: return None
SubmitNotFound(submission) ==
    /\ lastCall' = SubmitCall(submission, FALSE)
    /\ lastResult' = [status |-> "none"]
    /\ UNCHANGED attempts

\* add the attempt, flush, score the answers, set the score, commit;
\* db_fails: flush or commit raises, so rollback and return None
SubmitScored(submission, quiz, db_fails) ==
    LET attempt_id == Len(attempts) + 1
        progress == ProcessAnswers(quiz, attempt_id, CountResponses(attempts) + 1,
                                   NoProgress, submission.answers)
    IN  /\ lastCall' = SubmitCall(submission, db_fails)
        /\ IF db_fails
           THEN /\ lastResult' = [status |-> "none"]
                /\ UNCHANGED attempts
           ELSE /\ attempts' = Append(attempts,
                                       Inserted(FinalAttempt(quiz, attempt_id, progress), now))
                /\ lastResult' = QuizResult(quiz, progress)

SubmitQuizAnswers ==
    /\ Len(attempts) < MaxAttempts
    /\ \E submission \in Submissions(quizzes) :
          LET qx == QuizIndex(quizzes, submission.quiz_id) IN
          IF qx = 0
          THEN SubmitNotFound(submission)
          ELSE \E db_fails \in BOOLEAN : SubmitScored(submission, quizzes[qx], db_fails)
    /\ UNCHANGED <<quiz_response, expected_questions, accepted, built, pc,
                   quizzes, gemini_service, session, now>>

\* the Quiz built from what the gateway returns for a model answer of the
\* requested number of questions on the topic, the question q at position k
GeneratedQuiz(topic, k, q) ==
    _create_quiz_from_gemini_response(
        gemini_generate_quiz(
            [kind |-> "candidate",
             candidate |-> [topic |-> topic,
                            questions |-> [i \in 1..num_questions |->
                                IF i = k THEN q ELSE BaseQuestions(num_questions)[i]]]],
            num_questions).value)

RECURSIVE PersistAll(_, _)
PersistAll(built_quizzes, rows) ==
    IF built_quizzes = <<>> THEN rows
    ELSE PersistAll(Tail(built_quizzes), Append(rows, Persist(Head(built_quizzes), rows)))

ScoreInit ==
    /\ quiz_response = NoQuiz
    /\ expected_questions = 0
    /\ accepted = FALSE
    /\ built = NoQuiz
    /\ pc = "idle"
    /\ quizzes \in { PersistAll(<<GeneratedQuiz(TopicRome, 1, GoodQuestionB)>>, <<>>),
                      PersistAll(<<GeneratedQuiz(TopicMax, num_questions, GoodQuestionD),
                                   GeneratedQuiz(TopicRome, 1, GoodQuestionB)>>, <<>>) }
    /\ attempts = <<>>
    /\ gemini_service = TRUE
    /\ lastCall = NoCall
    /\ lastResult = NoResult
    /\ session = NoSession
    /\ now = 0

ScoreNext == SubmitQuizAnswers

ScoreSpec == ScoreInit /\ [][ScoreNext]_vars

-----------------------------------------------------------------------------
(* GeminiService on the text of the model's response: the fence of a         *)
(* markdown code block is stripped, the text is parsed as JSON and the       *)
(* parsed value is turned into a GeminiQuizResponse or a FeedbackResponse.   *)

\* the character U+0060
Backtick == "backtick"
Fence == <<Backtick, Backtick, Backtick>>
FenceJson == Fence \o <<"j", "s", "o", "n">>

\* str.startswith, str.endswith
StartsWith(s, prefix) ==
    Len(s) >= Len(prefix) /\ SubSeq(s, 1, Len(prefix)) = prefix
EndsWith(s, suffix) ==
    Len(s) >= Len(suffix) /\ SubSeq(s, Len(s) - Len(suffix) + 1, Len(s)) = suffix

\* str.find, str.rfind: the 0-based index of the first / last occurrence, -1 for none
Find(s, sub) ==
    LET at == {i \in 0..(Len(s) - Len(sub)) : SubSeq(s, i + 1, i + Len(sub)) = sub}
    IN  IF at = {} THEN -1 ELSE CHOOSE i \in at : \A j \in at : i <= j
RFind(s, sub) ==
    LET at == {i \in 0..(Len(s) - Len(sub)) : SubSeq(s, i + 1, i + Len(sub)) = sub}
    IN  IF at = {} THEN -1 ELSE CHOOSE i \in at : \A j \in at : i >= j

\* s[start:end] for 0 <= start and 0 <= end <= len(s)
Slice(s, start, end) == SubSeq(s, start + 1, end)

\* the text handed to json.loads
StripFence(text) ==
    LET t == Strip(text) IN
    IF StartsWith(t, FenceJson) /\ EndsWith(t, Fence)
    THEN Strip(Slice(t, Find(t, FenceJson) + 7, RFind(t, Fence)))
    ELSE IF StartsWith(t, Fence) /\ EndsWith(t, Fence)
    THEN Strip(Slice(t, Find(t, Fence) + 3, RFind(t, Fence)))
    ELSE t

NoItems == <<>>
FeedbackItem(question_id, explanation) ==
    [question_id |-> question_id, explanation |-> explanation]

\* the JSON documents of the model: the text, the kind of value it parses to
\* ("quiz": an object with the fields of GeminiQuizResponse, "items": an array
\* of feedback items, "object" / "array": another object or array) and the
\* value
Doc(text, shape, quiz, items) ==
    [text |-> text, shape |-> shape, quiz |-> quiz, items |-> items]

DefectiveQuestion == GenQ(<<"Q","6">>, OptionsABCD, "E")

Documents ==
    { Doc(<<"{","5","}">>, "quiz",
          [topic |-> TopicRome, questions |-> BaseQuestions(num_questions)], NoItems),
      Doc(<<"{","4","}">>, "quiz",
          [topic |-> TopicRome, questions |-> BaseQuestions(num_questions - 1)], NoItems),
      Doc(<<"{","b","}">>, "quiz",
          [topic |-> TopicRome,
           questions |-> [i \in 1..num_questions |->
                            IF i = num_questions THEN DefectiveQuestion
                            ELSE BaseQuestions(num_questions)[i]]], NoItems),
      Doc(<<"{","x","}">>, "object", NoQuiz, NoItems),
      Doc(<<"[","7","]">>, "array", NoQuiz, NoItems),
      Doc(<<"[","i","]">>, "items", NoQuiz, <<FeedbackItem(1, <<"e","1">>)>>),
      Doc(<<"[","i","i","]">>, "items", NoQuiz,
          <<FeedbackItem(1, <<"e","1">>), FeedbackItem(2, <<"e","2">>)>>) }

\* json.loads: surrounding whitespace is ignored; ok is FALSE for JSONDecodeError
JsonLoads(text) ==
    LET t == Strip(text) IN
    IF \E d \in Documents : d.text = t
    THEN [ok |-> TRUE, doc |-> CHOOSE d \in Documents : d.text = t]
    ELSE [ok |-> FALSE, doc |-> Doc(<<>>, "none", NoQuiz, NoItems)]

\* what generate_quiz makes of the model's answer, up to the construction of
\* the GeminiQuizResponse.  response.raised: generate_content_async raises
ModelOutcome(response) ==
    IF response.raised THEN [kind |-> "api_error", candidate |-> NoQuiz]
    ELSE IF response.text = <<>> THEN [kind |-> "empty", candidate |-> NoQuiz]
    ELSE LET quiz_data == JsonLoads(StripFence(response.text)) IN
         IF ~quiz_data.ok THEN [kind |-> "malformed", candidate |-> NoQuiz]
         ELSE IF quiz_data.doc.shape # "quiz" THEN [kind |-> "schema", candidate |-> NoQuiz]
         ELSE [kind |-> "candidate", candidate |-> quiz_data.doc.quiz]

\* GeminiService.generate_quiz on the response of the model
generate_quiz(response, expected) ==
    gemini_generate_quiz(ModelOutcome(response), expected)

NoFeedback == [ok |-> FALSE, items |-> NoItems]

\* GeminiService.explain_incorrect_answers on the response of the model: every
\* exception gives None
explain_incorrect_answers(response) ==
    IF response.raised \/ response.text = <<>> THEN NoFeedback
    ELSE LET parsed == JsonLoads(StripFence(response.text)) IN
         IF ~parsed.ok \/ parsed.doc.shape # "items" THEN NoFeedback
         ELSE [ok |-> TRUE, items |-> parsed.doc.items]

JsonTag == <<"j", "s", "o", "n">>
UpperJsonTag == <<"J", "S", "O", "N">>
OtherTag == <<"j", "s">>

Fenced(tag, payload) == Fence \o tag \o <<"\n">> \o payload \o <<"\n">> \o Fence

\* the texts the model sends for a payload, by wrapper
Wrap(wrapper, payload) ==
    CASE wrapper = "none"        -> payload
      [] wrapper = "padded"      -> <<" ">> \o payload \o <<"\n">>
      [] wrapper = "json"        -> Fenced(JsonTag, payload)
      [] wrapper = "json_tight"  -> FenceJson \o payload \o Fence
      [] wrapper = "json_padded" -> <<"\n">> \o Fenced(JsonTag, payload) \o <<" ">>
      [] wrapper = "bare"        -> Fenced(<<>>, payload)
      [] wrapper = "bare_tight"  -> Fence \o payload \o Fence
      [] wrapper = "JSON"        -> Fenced(UpperJsonTag, payload)
      [] wrapper = "js"          -> Fenced(OtherTag, payload)

Wrappers == {"none", "padded", "json", "json_tight", "json_padded", "bare",
             "bare_tight", "JSON", "js"}
FenceWrappers == Wrappers \ {"none", "padded"}

MalformedText == <<"{", "{">>
Payloads == {d.text : d \in Documents} \cup {MalformedText}

ModelResponses ==
    { [raised |-> FALSE, text |-> Wrap(w, payload), payload |-> payload, wrapper |-> w] :
          w \in Wrappers, payload \in Payloads }
    \cup { [raised |-> FALSE, text |-> t, payload |-> t, wrapper |-> "none"] :
              t \in {<<>>, <<" ">>, Fence} }
    \cup { [raised |-> TRUE, text |-> <<>>, payload |-> <<>>, wrapper |-> "none"] }

GatewayGenerateQuiz ==
    /\ \E response \in ModelResponses,
          expected \in {num_questions - 1, num_questions} :
          LET quiz == generate_quiz(response, expected) IN
          /\ lastCall' = [op |-> "gemini.generate_quiz", response |-> response,
                          expected |-> expected]
          /\ lastResult' = IF quiz.ok THEN [status |-> "ok", quiz |-> quiz.value,
                                            items |-> NoItems]
                           ELSE [status |-> "none", quiz |-> NoQuiz, items |-> NoItems]
    /\ UNCHANGED <<quiz_response, expected_questions, accepted, built, pc,
                   quizzes, attempts, gemini_service, session, now>>

GatewayExplain ==
    /\ \E response \in ModelResponses :
          LET feedback == explain_incorrect_answers(response) IN
          /\ lastCall' = [op |-> "gemini.explain_incorrect_answers",
                          response |-> response, expected |-> 0]
          /\ lastResult' = IF feedback.ok THEN [status |-> "ok", quiz |-> NoQuiz,
                                                items |-> feedback.items]
                           ELSE [status |-> "none", quiz |-> NoQuiz, items |-> NoItems]
    /\ UNCHANGED <<quiz_response, expected_questions, accepted, built, pc,
                   quizzes, attempts, gemini_service, session, now>>

GatewayInit ==
    /\ quiz_response = NoQuiz
    /\ expected_questions = 0
    /\ accepted = FALSE
    /\ built = NoQuiz
    /\ pc = "idle"
    /\ quizzes = <<>>
    /\ attempts = <<>>
    /\ gemini_service = TRUE
    /\ lastCall = NoCall
    /\ lastResult = NoResult
    /\ session = NoSession
    /\ now = 0

GatewayNext == GatewayGenerateQuiz \/ GatewayExplain

GatewaySpec == GatewayInit /\ [][GatewayNext]_vars

-----------------------------------------------------------------------------
(* submit_quiz_answers step by step: the session holds what was added and    *)
(* flushed but not committed; attempts holds the committed rows.             *)

\* db.rollback(): the committed rows once the session sess is rolled back,
\* with the flushed attempt and its responses kept
RolledBackKeepsFlushed(table, quiz, sess) ==
    IF sess.pc = "closed" THEN table
    ELSE Append(table, Inserted(FinalAttemptPlaceholder(quiz, sess.attempt_id, sess.progress),
                                sess.attempted_at))

\* db.rollback(): the committed rows once the session sess is rolled back;
\* what the session added and flushed is discarded
RolledBack(table, quiz, sess) == table

\* failed_step: the call that raises ("none" when none does)
TxnCall(submission, failed_step) ==
    [op |-> "submit_quiz_answers", submission |-> submission,
     db_fails |-> failed_step # "none", failed_step |-> failed_step]

TxnAnswerLists(rows, quiz) ==
    LET correct == AllCorrect(quiz)
        q2      == quiz.questions[2]
        wrong   == Answer(q2.id, q2.options[WrongOption(q2.options)].id)
        foreign == Answer(ForeignQuestionId(rows, quiz), quiz.questions[1].options[1].id)
    IN  { <<>>, <<correct[1]>>, <<correct[1], wrong>>, <<foreign, correct[2]>> }

TxnSubmissions(rows) ==
    { [quiz_id |-> rows[1].id, answers |-> a] : a \in TxnAnswerLists(rows, rows[1]) }
    \cup { [quiz_id |-> Len(rows) + 1, answers |-> <<Answer(1, 1)>>] }

\* get_quiz_by_id, add(attempt), flush
BeginSubmission ==
    /\ session.pc = "closed"
    /\ Len(attempts) <= MaxAttempts
    /\ \E submission \in TxnSubmissions(quizzes) :
          LET qx == QuizIndex(quizzes, submission.quiz_id) IN
          IF qx = 0
          THEN /\ lastCall' = TxnCall(submission, "none")
               /\ lastResult' = [status |-> "none"]
               /\ UNCHANGED <<attempts, session>>
          ELSE \E fails \in BOOLEAN :
                  IF fails
                  THEN /\ lastCall' = TxnCall(submission, "flush")
                       /\ lastResult' = [status |-> "none"]
                       /\ attempts' = RolledBack(attempts, quizzes[qx], session)
                       /\ UNCHANGED session
                  ELSE /\ session' = [ pc               |-> "scoring",
                                       submission       |-> submission,
                                       quiz             |-> qx,
                                       attempt_id       |-> Len(attempts) + 1,
                                       attempted_at     |-> now,
                                       next_response_id |-> CountResponses(attempts) + 1,
                                       progress         |-> NoProgress,
                                       remaining        |-> submission.answers ]
                       /\ UNCHANGED <<attempts, lastCall, lastResult>>
    /\ UNCHANGED <<quiz_response, expected_questions, accepted, built, pc,
                   quizzes, gemini_service, now>>

\* one iteration of the loop: the lookups and add(user_response)
ScoreAnswer ==
    /\ session.pc = "scoring"
    /\ session.remaining # <<>>
    /\ \E fails \in BOOLEAN :
          IF fails
          THEN /\ lastCall' = TxnCall(session.submission, "add")
               /\ lastResult' = [status |-> "none"]
               /\ attempts' = RolledBack(attempts, quizzes[session.quiz], session)
               /\ session' = NoSession
          ELSE /\ session' = [session EXCEPT
                                 !.progress = ProcessAnswer(quizzes[session.quiz],
                                                  session.attempt_id, session.next_response_id,
                                                  @, Head(session.remaining)),
                                 !.remaining = Tail(@)]
               /\ UNCHANGED <<attempts, lastCall, lastResult>>
    /\ UNCHANGED <<quiz_response, expected_questions, accepted, built, pc,
                   quizzes, gemini_service, now>>

\* attempt.score = correct_count, commit, then the result is built from the
\* quiz, which the commit has expired: "reload" is a failure of that read
CommitAttempt ==
    /\ session.pc = "scoring"
    /\ session.remaining = <<>>
    /\ \E failed_step \in {"none", "commit", "reload"} :
          LET quiz == quizzes[session.quiz] IN
          /\ lastCall' = TxnCall(session.submission, failed_step)
          /\ attempts' =
                IF failed_step = "commit"
                THEN RolledBack(attempts, quiz, session)
                ELSE Append(attempts,
                            Inserted(FinalAttempt(quiz, session.attempt_id, session.progress),
                                     session.attempted_at))
          /\ lastResult' = IF failed_step = "none"
                           THEN QuizResult(quiz, session.progress)
                           ELSE [status |-> "none"]
    /\ session' = NoSession
    /\ UNCHANGED <<quiz_response, expected_questions, accepted, built, pc,
                   quizzes, gemini_service, now>>

\* the attempt committed for a submission of every correct answer
PriorAttempt(rows) ==
    Inserted(FinalAttempt(rows[1], 1,
                          ProcessAnswers(rows[1], 1, 1, NoProgress, AllCorrect(rows[1]))), 0)

TxnInit ==
    /\ quiz_response = NoQuiz
    /\ expected_questions = 0
    /\ accepted = FALSE
    /\ built = NoQuiz
    /\ pc = "idle"
    /\ quizzes = PersistAll(<<GeneratedQuiz(TopicRome, 1, GoodQuestionB)>>, <<>>)
    /\ attempts \in {<<>>, <<PriorAttempt(quizzes)>>}
    /\ gemini_service = TRUE
    /\ lastCall = NoCall
    /\ lastResult = NoResult
    /\ session = NoSession
    /\ now = 0

TxnNext == BeginSubmission \/ ScoreAnswer \/ CommitAttempt

TxnSpec == TxnInit /\ [][TxnNext]_vars

-----------------------------------------------------------------------------
(* The routes of routers/quiz.py for submissions and the history of attempts *)

MaxHistory == 2
MaxTime == 1

\* QuizService.submit_quiz_answers as a function of the committed rows, the
\* database clock t and the submission: the committed attempts and the return
\* value.  db_fails: the flush or the commit raises
submit_quiz_answers(rows, table, t, submission, db_fails) ==
    LET qx == QuizIndex(rows, submission.quiz_id) IN
    IF qx = 0 \/ db_fails
    THEN [attempts |-> table, result |-> [status |-> "none"]]
    ELSE LET quiz == rows[qx]
             attempt_id == Len(table) + 1
             progress == ProcessAnswers(quiz, attempt_id, CountResponses(table) + 1,
                                        NoProgress, submission.answers)
         IN  [attempts |-> Append(table, Inserted(FinalAttempt(quiz, attempt_id, progress), t)),
              result   |-> QuizResult(quiz, progress)]

\* as submit_quiz, without the comparison of the two quiz ids
submit_quiz_unchecked(rows, table, t, quiz_id, submission, db_fails) ==
    LET done == submit_quiz_answers(rows, table, t, submission, db_fails) IN
    [ attempts       |-> done.attempts,
      service_called |-> TRUE,
      response       |-> IF done.result.status = "none"
                         THEN [status |-> "http400", detail |-> "failed"]
                         ELSE done.result ]

\* POST /{quiz_id}/submit
submit_quiz(rows, table, t, quiz_id, submission, db_fails) ==
    IF quiz_id # submission.quiz_id
    THEN [ attempts       |-> table,
           service_called |-> FALSE,
           response       |-> [status |-> "http400", detail |-> "mismatch"] ]
    ELSE LET done == submit_quiz_answers(rows, table, t, submission, db_fails) IN
         [ attempts       |-> done.attempts,
           service_called |-> TRUE,
           response       |-> IF done.result.status = "none"
                              THEN [status |-> "http400", detail |-> "failed"]
                              ELSE done.result ]

\* the rows of table that satisfy the filter, in table order
RECURSIVE OfQuiz(_, _)
OfQuiz(table, quiz_id) ==
    IF table = <<>> THEN <<>>
    ELSE IF Head(table).quiz_id = quiz_id
         THEN <<Head(table)>> \o OfQuiz(Tail(table), quiz_id)
         ELSE OfQuiz(Tail(table), quiz_id)

Orderings(n) ==
    { f \in [1..n -> 1..n] : \A i, j \in 1..n : f[i] = f[j] => i = j }

\* QuizService.get_quiz_attempts: every list the query may return.  ORDER BY
\* attempted_at DESC fixes the order of rows with different attempted_at only
get_quiz_attempts(table, quiz_id) ==
    LET rows == OfQuiz(table, quiz_id) IN
    { [i \in 1..Len(rows) |-> rows[f[i]]] :
        f \in { g \in Orderings(Len(rows)) :
                  \A i, j \in 1..Len(rows) :
                     i < j => rows[g[i]].attempted_at >= rows[g[j]].attempted_at } }

RouteSubmissions(rows) ==
    LET quiz    == rows[1]
        correct == AllCorrect(quiz)
        q2      == quiz.questions[2]
        wrong   == Answer(q2.id, q2.options[WrongOption(q2.options)].id)
    IN  { [quiz_id |-> quiz.id, answers |-> <<correct[1]>>],
          [quiz_id |-> quiz.id, answers |-> <<wrong>>],
          [quiz_id |-> rows[2].id, answers |-> <<>>],
          [quiz_id |-> Len(rows) + 1, answers |-> <<Answer(1, 1)>>] }

\* the ids of the request paths: every quiz and one id of no quiz
PathIds(rows) == 1..(Len(rows) + 1)

SubmitQuiz ==
    /\ Len(attempts) < MaxHistory
    /\ \E quiz_id \in PathIds(quizzes), submission \in RouteSubmissions(quizzes),
          db_fails \in BOOLEAN :
          LET done == submit_quiz(quizzes, attempts, now, quiz_id, submission, db_fails) IN
          /\ done.service_called \/ ~db_fails
          /\ attempts' = done.attempts
          /\ lastCall' = [op |-> "submit_quiz", quiz_id |-> quiz_id,
                          submission |-> submission, db_fails |-> db_fails,
                          service_called |-> done.service_called]
          /\ lastResult' = done.response
    /\ UNCHANGED <<quiz_response, expected_questions, accepted, built, pc,
                   quizzes, gemini_service, session, now>>

\* GET /{quiz_id}/attempts
GetQuizAttempts ==
    /\ \E quiz_id \in PathIds(quizzes) :
          /\ lastCall' = [op |-> "get_quiz_attempts", quiz_id |-> quiz_id]
          /\ IF QuizIndex(quizzes, quiz_id) = 0
             THEN lastResult' = [status |-> "http404"]
             ELSE \E listed \in get_quiz_attempts(attempts, quiz_id) :
                     lastResult' = [status |-> "ok", attempts |-> listed]
    /\ UNCHANGED <<quiz_response, expected_questions, accepted, built, pc,
                   quizzes, attempts, gemini_service, session, now>>

\* the database clock advances by one unit of its resolution
Tick ==
    /\ now < MaxTime
    /\ now' = now + 1
    /\ UNCHANGED <<quiz_response, expected_questions, accepted, built, pc,
                   quizzes, attempts, gemini_service, lastCall, lastResult, session>>

RouteInit ==
    /\ quiz_response = NoQuiz
    /\ expected_questions = 0
    /\ accepted = FALSE
    /\ built = NoQuiz
    /\ pc = "idle"
    /\ quizzes = PersistAll(<<GeneratedQuiz(TopicMax, num_questions, GoodQuestionD),
                              GeneratedQuiz(TopicRome, 1, GoodQuestionB)>>, <<>>)
    /\ attempts = <<>>
    /\ gemini_service = TRUE
    /\ lastCall = NoCall
    /\ lastResult = NoResult
    /\ session = NoSession
    /\ now = 0

RouteNext == SubmitQuiz \/ GetQuizAttempts \/ Tick

RouteSpec == RouteInit /\ [][RouteNext]_vars

-----------------------------------------------------------------------------
(* The percentage of a result as a pure function of the number of correct    *)
(* answers and the number of questions of the quiz                           *)

MaxTotal == 32
MaxOptionsSetting == 6

PercentInit ==
    /\ quiz_response = NoQuiz
    /\ expected_questions = 0
    /\ accepted = FALSE
    /\ built = NoQuiz
    /\ pc = "idle"
    /\ quizzes = <<>>
    /\ attempts = <<>>
    /\ gemini_service = TRUE
    /\ lastCall \in { [op |-> "percentage", correct_count |-> c, total |-> n] :
                         c \in 0..MaxTotal, n \in 0..MaxTotal }
    /\ lastResult = NoResult
    /\ session = NoSession
    /\ now = 0

ComputePercentage ==
    /\ lastCall.op = "percentage"
    /\ lastResult = NoResult
    /\ lastResult' = [status |-> "ok",
                      percentage |-> Percentage(lastCall.correct_count, lastCall.total)]
    /\ UNCHANGED <<quiz_response, expected_questions, accepted, built, pc,
                   quizzes, attempts, gemini_service, lastCall, session, now>>

PercentNext == ComputePercentage

PercentSpec == PercentInit /\ [][PercentNext]_vars

-----------------------------------------------------------------------------
(* The feedback route of routers/quiz.py *)

YouChose == <<"Y","o","u"," ","c","h","o","s","e"," ">>
TheCorrectAnswerIs ==
    <<"T","h","e"," ","c","o","r","r","e","c","t"," ","a","n","s","w","e","r"," ","i","s"," ">>

\* as FallbackText, naming the correct option only
FallbackTextCorrectOnly(i) ==
    TheCorrectAnswerIs \o i.correct_option \o <<".", " ">> \o i.correct_text \o <<".">>

\* f"You chose {i.user_selected}. {i.user_selected_text}. The correct answer
\* is {i.correct_option}. {i.correct_text}."
FallbackText(i) ==
    YouChose \o i.user_selected \o <<".", " ">> \o i.user_selected_text \o <<".", " ">>
    \o TheCorrectAnswerIs \o i.correct_option \o <<".", " ">> \o i.correct_text \o <<".">>

\* the items of the fallback, one for every item of the payload
FallbackItems(payload) ==
    [k \in 1..Len(payload.items) |->
        FeedbackItem(payload.items[k].question_id, FallbackText(payload.items[k]))]

\* as get_quiz_feedback, without the lookup of the quiz
get_quiz_feedback_unchecked(rows, service, quiz_id, payload, response) ==
    LET feedback == IF service THEN explain_incorrect_answers(response) ELSE NoFeedback
    IN  [ status       |-> "ok",
          model_called |-> service,
          items        |-> IF feedback.ok THEN feedback.items ELSE FallbackItems(payload) ]

\* POST /{quiz_id}/feedback.  service: a GeminiService instance exists;
\* response: what the model answers when it is asked
get_quiz_feedback(rows, service, quiz_id, payload, response) ==
    IF QuizIndex(rows, quiz_id) = 0
    THEN [status |-> "http404", model_called |-> FALSE, items |-> NoItems]
    ELSE LET feedback == IF service THEN explain_incorrect_answers(response) ELSE NoFeedback
         IN  [ status       |-> "ok",
               model_called |-> service,
               items        |-> IF feedback.ok THEN feedback.items
                                ELSE FallbackItems(payload) ]

\* an item of a FeedbackRequest
Mismatch(question_id, question_text, user_selected, user_selected_text, correct_option, correct_text) ==
    [ question_id        |-> question_id,
      question_text      |-> question_text,
      user_selected      |-> user_selected,
      user_selected_text |-> user_selected_text,
      correct_option     |-> correct_option,
      correct_text       |-> correct_text ]

MismatchOne == Mismatch(1, <<"Q","1">>, <<"A">>, <<"3">>, <<"B">>, <<"4">>)
MismatchTwo == Mismatch(2, <<" ","Q","2">>, <<"C">>, <<" ","7",".">>, <<"D">>, <<"8">>)
MismatchUnknown == Mismatch(9, <<"Q","9">>, <<"B">>, <<>>, <<"A">>, <<"x"," ","y">>)

FeedbackRequests ==
    { [topic |-> TopicRome, items |-> items] :
        items \in { <<>>, <<MismatchOne>>, <<MismatchOne, MismatchTwo>>,
                    <<MismatchTwo, MismatchOne>>, <<MismatchUnknown, MismatchOne>> } }

\* what the model answers to the prompt of explain_incorrect_answers: the call
\* raises, no text, or a payload sent as it is or in a fence
ExplainResponses ==
    { r \in ModelResponses :
        /\ r.wrapper \in {"none", "json", "JSON"}
        /\ r.payload \in {<<>>, MalformedText, <<"{","5","}">>, <<"[","i","]">>,
                           <<"[","i","i","]">>} }

GetQuizFeedback ==
    /\ \E quiz_id \in PathIds(quizzes), payload \in FeedbackRequests,
          response \in ExplainResponses :
          LET done == get_quiz_feedback(quizzes, gemini_service, quiz_id, payload, response)
          IN  /\ lastCall' = [op |-> "get_quiz_feedback", quiz_id |-> quiz_id,
                              payload |-> payload, model_called |-> done.model_called,
                              response |-> response]
              /\ lastResult' = [status |-> done.status, items |-> done.items]
    /\ UNCHANGED <<quiz_response, expected_questions, accepted, built, pc,
                   quizzes, attempts, gemini_service, session, now>>

FeedbackInit ==
    /\ quiz_response = NoQuiz
    /\ expected_questions = 0
    /\ accepted = FALSE
    /\ built = NoQuiz
    /\ pc = "idle"
    /\ quizzes = PersistAll(<<GeneratedQuiz(TopicRome, 1, GoodQuestionB)>>, <<>>)
    /\ attempts = <<>>
    /\ gemini_service \in BOOLEAN
    /\ lastCall = NoCall
    /\ lastResult = NoResult
    /\ session = NoSession
    /\ now = 0

FeedbackNext == GetQuizFeedback

FeedbackSpec == FeedbackInit /\ [][FeedbackNext]_vars

-----------------------------------------------------------------------------
(* GeminiService._validate_quiz_business_rules under a configured            *)
(* settings.default_options_per_question: the option count is compared with  *)
(* the setting, the option letters with the literal set A, B, C, D.          *)

Letters == <<"A", "B", "C", "D", "E", "F", "G", "H">>

\* as QuestionPassesConfigured, with the first options_per_question letters of
\* the alphabet as the expected letters
QuestionPassesConfiguredLetters(question, options_per_question) ==
    IF question.question = <<>> \/ Len(Strip(question.question)) = 0 THEN FALSE
    ELSE IF Len(question.options) # options_per_question THEN FALSE
    ELSE IF Keys(question.options) # {Letters[j] : j \in 1..options_per_question} THEN FALSE
    ELSE IF question.correct_answer \notin Keys(question.options) THEN FALSE
    ELSE \A j \in 1..Len(question.options) :
            ~(question.options[j].v = <<>> \/ Len(Strip(question.options[j].v)) = 0)

\* the body of the loop over the questions when
\* settings.default_options_per_question is options_per_question
QuestionPassesConfigured(question, options_per_question) ==
    IF question.question = <<>> \/ Len(Strip(question.question)) = 0 THEN FALSE
    ELSE IF Len(question.options) # options_per_question THEN FALSE
    ELSE IF Keys(question.options) # expected_letters THEN FALSE
    ELSE IF question.correct_answer \notin Keys(question.options) THEN FALSE
    ELSE \A j \in 1..Len(question.options) :
            ~(question.options[j].v = <<>> \/ Len(Strip(question.options[j].v)) = 0)

validate_configured(response, expected, options_per_question) ==
    IF Len(response.questions) # expected THEN FALSE
    ELSE \A i \in 1..Len(response.questions) :
            QuestionPassesConfigured(response.questions[i], options_per_question)

\* a question with the first n letters as options, each with a text
QuestionOfSize(n) ==
    GenQ(<<"Q","9">>, [j \in 1..n |-> Opt(Letters[j], Txt("7"))], "A")

ConfiguredQuestions ==
    QuestionPool \cup {QuestionOfSize(n) : n \in 1..(MaxOptionsSetting + 1)}

\* candidates of no question, of one question and of the default number of
\* questions: the same question throughout, or one question of the pool first
\* or last among good ones
ConfiguredCandidates ==
    { [topic |-> TopicRome, questions |-> [i \in 1..m |-> q]] :
          m \in {0, 1, num_questions}, q \in ConfiguredQuestions }
    \cup { [topic |-> TopicRome, questions |-> qs] : qs \in ModelQuestionLists }

\* the process is started with a value of DEFAULT_OPTIONS_PER_QUESTION, kept
\* in lastCall; a candidate comes back from the model
ConfiguredInit ==
    /\ quiz_response \in ConfiguredCandidates
    /\ expected_questions \in {0, 1, num_questions}
    /\ accepted = FALSE
    /\ built = NoQuiz
    /\ pc = "input"
    /\ quizzes = <<>>
    /\ attempts = <<>>
    /\ gemini_service = TRUE
    /\ lastCall \in { [op |-> "settings", default_options_per_question |-> n] :
                         n \in 1..MaxOptionsSetting }
    /\ lastResult = NoResult
    /\ session = NoSession
    /\ now = 0

ConfiguredValidate ==
    /\ pc = "input"
    /\ accepted' = validate_configured(quiz_response, expected_questions,
                                        lastCall.default_options_per_question)
    /\ pc' = "validated"
    /\ UNCHANGED <<quiz_response, expected_questions, built,
                   quizzes, attempts, gemini_service, lastCall, lastResult,
                   session, now>>

ConfiguredNext == ConfiguredValidate

ConfiguredSpec == ConfiguredInit /\ [][ConfiguredNext]_vars

-----------------------------------------------------------------------------
(* Quizzes generated through the pipeline and then answered: generate_quiz   *)
(* with whatever the model answers, then submit_quiz_answers on the quizzes  *)
(* that were persisted.                                                      *)

\* generate_quiz on a valid topic; the model answers with the requested
\* number of questions, any one question of the pool first or last
FlowGenerate ==
    /\ Len(quizzes) < MaxQuizzes
    /\ \E k \in {1, num_questions}, q \in QuestionPool :
          LET outcome == [kind |-> "candidate",
                          candidate |-> [topic |-> TopicRome,
                                         questions |-> [i \in 1..num_questions |->
                                             IF i = k THEN q
                                             ELSE BaseQuestions(num_questions)[i]]]]
              gemini_response == gemini_generate_quiz(outcome, num_questions)
          IN  IF ~gemini_response.ok
              THEN GenerateNoResponse(TopicRome, outcome)
              ELSE GeneratePersist(TopicRome, gemini_response.value, "none")
    /\ UNCHANGED <<quiz_response, expected_questions, accepted, built, pc,
                   attempts, gemini_service, session, now>>

\* submit_quiz_answers with one answer: any option of the first or the last
\* question of a persisted quiz
FlowSubmit ==
    /\ Len(attempts) < MaxAttempts
    /\ \E x \in DOMAIN quizzes :
          \E k \in {1, Len(quizzes[x].questions)} :
             \E j \in DOMAIN quizzes[x].questions[k].options :
                SubmitScored([quiz_id |-> quizzes[x].id,
                              answers |-> <<Answer(quizzes[x].questions[k].id,
                                                   quizzes[x].questions[k].options[j].id)>>],
                             quizzes[x], FALSE)
    /\ UNCHANGED <<quiz_response, expected_questions, accepted, built, pc,
                   quizzes, gemini_service, session, now>>

FlowInit ==
    /\ quiz_response = NoQuiz
    /\ expected_questions = 0
    /\ accepted = FALSE
    /\ built = NoQuiz
    /\ pc = "idle"
    /\ quizzes = <<>>
    /\ attempts = <<>>
    /\ gemini_service = TRUE
    /\ lastCall = NoCall
    /\ lastResult = NoResult
    /\ session = NoSession
    /\ now = 0

FlowNext == FlowGenerate \/ FlowSubmit

FlowSpec == FlowInit /\ [][FlowNext]_vars

-----------------------------------------------------------------------------
(* Two requests that submit to the same quiz at the same time: each request  *)
(* has a session of its own, and the steps of the two handlers interleave.   *)
(* session is here a function from the requests to their sessions.           *)

Workers == {"w1", "w2"}

MaxOf(S) == CHOOSE x \in S : \A y \in S : y <= x

\* as NextAttemptId, counting the committed rows only
NextAttemptIdCommittedOnly(table, sessions) == Len(table) + 1

\* the primary key the database gives to an attempt that is flushed: greater
\* than the key of every row inserted so far, committed or not
NextAttemptId(table, sessions) ==
    1 + MaxOf({0} \cup {table[i].id : i \in DOMAIN table}
                  \cup {sessions[w].attempt_id :
                          w \in {v \in DOMAIN sessions : sessions[v].pc # "closed"}})

\* the responses of a session with the primary keys they get when they are
\* flushed, at the commit
Flushed(progress, first_id) ==
    [progress EXCEPT !.responses =
        [i \in DOMAIN progress.responses |->
            [progress.responses[i] EXCEPT !.id = first_id + i - 1]]]

\* get_quiz_by_id, add(attempt), flush
ConcBegin(w) ==
    /\ session[w].pc = "closed"
    /\ \E answers \in TxnAnswerLists(quizzes, quizzes[1]) :
          session' = [session EXCEPT ![w] =
                        [ pc           |-> "scoring",
                          submission   |-> [quiz_id |-> quizzes[1].id, answers |-> answers],
                          quiz         |-> QuizIndex(quizzes, quizzes[1].id),
                          attempt_id   |-> NextAttemptId(attempts, session),
                          attempted_at |-> now,
                          progress     |-> NoProgress,
                          remaining    |-> answers ]]
    /\ UNCHANGED <<quiz_response, expected_questions, accepted, built, pc,
                   quizzes, attempts, gemini_service, lastCall, lastResult, now>>

\* one iteration of the loop over submission.answers
ConcScore(w) ==
    /\ session[w].pc = "scoring"
    /\ session[w].remaining # <<>>
    /\ session' = [session EXCEPT ![w] =
                     [@ EXCEPT !.progress = ProcessAnswer(quizzes[session[w].quiz],
                                                session[w].attempt_id, 1, @,
                                                Head(session[w].remaining)),
                               !.remaining = Tail(@)]]
    /\ UNCHANGED <<quiz_response, expected_questions, accepted, built, pc,
                   quizzes, attempts, gemini_service, lastCall, lastResult, now>>

\* attempt.score = correct_count, commit, return QuizResult
ConcCommit(w) ==
    /\ session[w].pc = "scoring"
    /\ session[w].remaining = <<>>
    /\ LET quiz == quizzes[session[w].quiz]
           progress == Flushed(session[w].progress, CountResponses(attempts) + 1)
       IN  /\ attempts' = Append(attempts,
                                 Inserted(FinalAttempt(quiz, session[w].attempt_id, progress),
                                          session[w].attempted_at))
           /\ session' = [session EXCEPT ![w] =
                            [ pc         |-> "done",
                              submission |-> session[w].submission,
                              attempt_id |-> session[w].attempt_id,
                              result     |-> QuizResult(quiz, progress) ]]
           /\ lastCall' = SubmitCall(session[w].submission, FALSE)
           /\ lastResult' = QuizResult(quiz, progress)
    /\ UNCHANGED <<quiz_response, expected_questions, accepted, built, pc,
                   quizzes, gemini_service, now>>

ConcInit ==
    /\ quiz_response = NoQuiz
    /\ expected_questions = 0
    /\ accepted = FALSE
    /\ built = NoQuiz
    /\ pc = "idle"
    /\ quizzes = PersistAll(<<GeneratedQuiz(TopicRome, 1, GoodQuestionB)>>, <<>>)
    /\ attempts = <<>>
    /\ gemini_service = TRUE
    /\ lastCall = NoCall
    /\ lastResult = NoResult
    /\ session = [w \in Workers |-> NoSession]
    /\ now = 0

ConcNext == \E w \in Workers : ConcBegin(w) \/ ConcScore(w) \/ ConcCommit(w)

ConcSpec == ConcInit /\ [][ConcNext]_vars

-----------------------------------------------------------------------------
(* Properties of the validator and the builder (CandidateSpec) *)

Range(f) == {f[i] : i \in DOMAIN f}

\* the rules of the validator, each stated on its own
RuleQuestionText(q) == Strip(q.question) # <<>>
RuleOptionCount(q) == Cardinality(DOMAIN q.options) = 4
RuleLabels(q) ==
    /\ \A l \in {"A", "B", "C", "D"} : \E o \in Range(q.options) : o.k = l
    /\ \A o \in Range(q.options) : o.k \in {"A", "B", "C", "D"}
RuleCorrectAnswer(q) == \E o \in Range(q.options) : o.k = q.correct_answer
RuleOptionTexts(q) == \A o \in Range(q.options) : Strip(o.v) # <<>>

QuestionRulesHold(q) ==
    /\ RuleQuestionText(q)
    /\ RuleOptionCount(q)
    /\ RuleLabels(q)
    /\ RuleCorrectAnswer(q)
    /\ RuleOptionTexts(q)

\* C2: the validator accepts a candidate if and only if the number of questions
\* is the expected one and every question has a non-blank text, the configured
\* number of options, exactly the canonical labels, a correct_answer among its
\* labels and no blank option text.
C2_AcceptIffAllRules ==
    pc # "input" =>
        ( accepted <=>
            /\ Len(quiz_response.questions) = expected_questions
            /\ \A q \in Range(quiz_response.questions) : QuestionRulesHold(q) )

\* a candidate of the expected size rejected for one violation in one question
C2_Witness ==
    /\ pc = "validated"
    /\ ~accepted
    /\ Len(quiz_response.questions) = expected_questions
    /\ Len(quiz_response.questions) >= 2
    /\ Cardinality({i \in DOMAIN quiz_response.questions :
                        ~QuestionRulesHold(quiz_response.questions[i])}) = 1

\* C3: a candidate with a question whose set of option labels is not
\* {A,B,C,D} is rejected.
C3_WrongLabelsRejected ==
    ( /\ pc # "input"
      /\ \E q \in Range(quiz_response.questions) :
            {o.k : o \in Range(q.options)} # {"A", "B", "C", "D"} )
    => ~accepted

\* rejected although only the label set is wrong: four options, one of them
\* labelled E, every other rule satisfied by every question
C3_Witness ==
    /\ pc = "validated"
    /\ ~accepted
    /\ Len(quiz_response.questions) = expected_questions
    /\ \E q \in Range(quiz_response.questions) : ~RuleLabels(q)
    /\ \A q \in Range(quiz_response.questions) :
          /\ RuleQuestionText(q) /\ RuleOptionCount(q)
          /\ RuleCorrectAnswer(q) /\ RuleOptionTexts(q)

\* C4: a candidate with a question whose correct_answer is none of that
\* question's option labels is rejected.
C4_UnknownCorrectAnswerRejected ==
    ( /\ pc # "input"
      /\ \E q \in Range(quiz_response.questions) :
            \A o \in Range(q.options) : o.k # q.correct_answer )
    => ~accepted

\* rejected although only correct_answer is wrong
C4_Witness ==
    /\ pc = "validated"
    /\ ~accepted
    /\ Len(quiz_response.questions) = expected_questions
    /\ \E q \in Range(quiz_response.questions) : ~RuleCorrectAnswer(q)
    /\ \A q \in Range(quiz_response.questions) :
          /\ RuleQuestionText(q) /\ RuleOptionCount(q)
          /\ RuleLabels(q) /\ RuleOptionTexts(q)

TopicRuleViolated(topic) ==
    \/ topic = <<>>
    \/ Len(topic) > 100
    \/ \E keyword \in inappropriate_keywords : Contains(keyword, Lower(topic))

\* C5: the validator rejects every candidate whose topic is empty, longer than
\* 100 characters or contains a denylisted keyword in any letter case, also when
\* its questions (at least one) are all well-formed.
C5_BadTopicRejected ==
    ( /\ pc # "input"
      /\ TopicRuleViolated(quiz_response.topic)
      /\ Len(quiz_response.questions) >= 1 )
    => ~accepted

\* C6: the Quiz built from a candidate accepted for N questions has N
\* questions of 4 options each, an option is flagged correct if and only if its
\* label is the question's correct_answer, and every question has exactly one
\* correct option.
C6_BuildOfAccepted ==
    (pc = "built" /\ accepted) =>
        /\ Len(built.questions) = expected_questions
        /\ \A i \in DOMAIN built.questions :
              LET opts == built.questions[i].options IN
              /\ Len(opts) = 4
              /\ \A j \in DOMAIN opts :
                    opts[j].is_correct <=>
                        (opts[j].option_letter = quiz_response.questions[i].correct_answer)
              /\ Cardinality({j \in DOMAIN opts : opts[j].is_correct}) = 1

\* a built quiz of two questions whose correct options have different labels
C6_Witness ==
    /\ pc = "built"
    /\ accepted
    /\ Len(built.questions) = 2
    /\ quiz_response.questions[1].correct_answer # quiz_response.questions[2].correct_answer

\* C7: the built Quiz has the candidate's questions in the candidate's order,
\* the i-th with question_order i, so the order indexes are exactly 1..N.
C7_QuestionOrder ==
    pc = "built" =>
        /\ Len(built.questions) = Len(quiz_response.questions)
        /\ \A i \in DOMAIN built.questions :
              /\ built.questions[i].question_order = i
              /\ built.questions[i].question_text = quiz_response.questions[i].question
        /\ {q.question_order : q \in Range(built.questions)}
              = 1..Len(quiz_response.questions)
        /\ Cardinality({q.question_order : q \in Range(built.questions)})
              = Len(built.questions)

\* a built quiz of two questions with different texts
C7_Witness ==
    /\ pc = "built"
    /\ Len(built.questions) = 2
    /\ built.questions[1].question_text # built.questions[2].question_text

-----------------------------------------------------------------------------
(* Properties of the generation pipeline (Spec) *)

\* C1: every committed question of every committed quiz has four options whose
\* labels are A, B, C and D, each once, and exactly one option flagged correct.
C1_PersistedOptionsWellFormed ==
    \A quiz \in Range(quizzes) : \A question \in Range(quiz.questions) :
        /\ {o.option_letter : o \in Range(question.options)} = {"A", "B", "C", "D"}
        /\ Len(question.options) = 4
        /\ Cardinality({j \in DOMAIN question.options : question.options[j].is_correct}) = 1

\* a quiz was committed by the pipeline
C1_Witness ==
    /\ lastCall.op = "generate_quiz"
    /\ lastResult.status = "ok"
    /\ Len(quizzes) >= 1
    /\ Len(quizzes[Len(quizzes)].questions) = 5

-----------------------------------------------------------------------------
(* Properties of scoring (ScoreSpec) *)

Submitted == lastCall.op = "submit_quiz_answers" /\ lastResult.status = "ok"

\* the quiz the last submission names and the attempt committed for it
SubmittedQuiz == CHOOSE quiz \in Range(quizzes) : quiz.id = lastCall.submission.quiz_id
SubmittedAttempt == attempts[Len(attempts)]

OptionsOf(quiz) == UNION {Range(question.options) : question \in Range(quiz.questions)}

\* the answer names a question of the quiz and an option of that question
ValidAnswer(quiz, answer) ==
    \E question \in Range(quiz.questions) :
        /\ question.id = answer.question_id
        /\ \E o \in Range(question.options) : o.id = answer.selected_option_id

TrueCount(items) == Cardinality({i \in DOMAIN items : items[i].is_correct})

\* C8: a scored submission reports the number of questions of the quiz as
\* total_questions, in the result and in the attempt, whatever was answered;
\* with no valid answer the score is 0 and the percentage 0.0.
C8_TotalIsQuizSize ==
    Submitted =>
        /\ lastResult.total_questions = Len(SubmittedQuiz.questions)
        /\ SubmittedAttempt.total_questions = Len(SubmittedQuiz.questions)
        /\ (\A a \in Range(lastCall.submission.answers) : ~ValidAnswer(SubmittedQuiz, a))
              => /\ lastResult.score = 0
                 /\ SubmittedAttempt.score = 0
                 /\ lastResult.percentage = 0

\* a scored submission of answers that are all invalid
C8_Witness ==
    /\ Submitted
    /\ Len(lastCall.submission.answers) >= 1
    /\ \A a \in Range(lastCall.submission.answers) : ~ValidAnswer(SubmittedQuiz, a)
    /\ lastResult.total_questions = 5

\* every question is answered once, with its correct option
AnswersAllCorrect(quiz, answers) ==
    /\ Len(answers) = Len(quiz.questions)
    /\ \A question \in Range(quiz.questions) :
          \E a \in Range(answers) :
              /\ a.question_id = question.id
              /\ \E o \in Range(question.options) :
                    o.is_correct /\ o.id = a.selected_option_id

\* C9: a submission of the correct option of every question scores N,
\* 100.0 percent, with N result-lines all flagged correct.
C9_AllCorrectScoresFull ==
    (Submitted /\ AnswersAllCorrect(SubmittedQuiz, lastCall.submission.answers)) =>
        /\ lastResult.score = Len(SubmittedQuiz.questions)
        /\ lastResult.percentage = 100 * 100
        /\ Len(lastResult.correct_answers) = Len(SubmittedQuiz.questions)
        /\ \A line \in Range(lastResult.correct_answers) : line.is_correct

C9_Witness ==
    /\ Submitted
    /\ AnswersAllCorrect(SubmittedQuiz, lastCall.submission.answers)
    /\ lastResult.score = 5

\* C10: the score of the result, the score of the committed attempt, the
\* number of result-lines flagged correct and the number of the attempt's
\* responses flagged correct are equal; each line and each response carries the
\* is_correct flag of the selected option; every committed attempt has its
\* final score.
C10_ScoreConsistent ==
    /\ \A attempt \in Range(attempts) : attempt.score = TrueCount(attempt.responses)
    /\ Submitted =>
          /\ lastResult.score = SubmittedAttempt.score
          /\ lastResult.score = TrueCount(lastResult.correct_answers)
          /\ \A r \in Range(SubmittedAttempt.responses) :
                \E o \in OptionsOf(SubmittedQuiz) :
                    o.id = r.selected_option_id /\ o.is_correct = r.is_correct
          /\ Len(lastResult.correct_answers) = Len(SubmittedAttempt.responses)
          /\ \A i \in DOMAIN lastResult.correct_answers :
                lastResult.correct_answers[i].is_correct
                    = SubmittedAttempt.responses[i].is_correct

\* one correct and one incorrect answer: score 1, one line true and one false
C10_Witness ==
    /\ Submitted
    /\ Len(lastResult.correct_answers) = 2
    /\ lastResult.score = 1
    /\ SubmittedAttempt.score = 1
    /\ lastResult.percentage = 20 * 100
    /\ TrueCount(lastResult.correct_answers) = 1

\* the last call scored a submission to an existing quiz and the database did
\* not fail
ScoredCall ==
    /\ lastCall.op = "submit_quiz_answers"
    /\ ~lastCall.db_fails
    /\ \E quiz \in Range(quizzes) : quiz.id = lastCall.submission.quiz_id

QuestionOfQuiz(quiz, answer) ==
    \E question \in Range(quiz.questions) : question.id = answer.question_id

\* the answer selects a correct option of the question it names
PicksCorrect(quiz, answer) ==
    \E question \in Range(quiz.questions) :
        /\ question.id = answer.question_id
        /\ \E o \in Range(question.options) :
              o.id = answer.selected_option_id /\ o.is_correct

\* C11: an answer whose question id is no question of the quiz is skipped and
\* nothing is raised: the submission succeeds, no response and no result-line
\* names a question outside the quiz, and when every other answer is valid the
\* responses and the lines are those of the other answers, each with its
\* question and option, and the score counts the correct ones among them.
C11_UnknownQuestionSkipped ==
    ScoredCall =>
        LET answers == lastCall.submission.answers
            known   == {i \in DOMAIN answers : QuestionOfQuiz(SubmittedQuiz, answers[i])}
        IN  /\ lastResult.status = "ok"
            /\ \A r \in Range(SubmittedAttempt.responses) : QuestionOfQuiz(SubmittedQuiz, r)
            /\ \A line \in Range(lastResult.correct_answers) :
                  QuestionOfQuiz(SubmittedQuiz, line)
            /\ (\A i \in known : ValidAnswer(SubmittedQuiz, answers[i])) =>
                  /\ Len(SubmittedAttempt.responses) = Cardinality(known)
                  /\ Len(lastResult.correct_answers) = Cardinality(known)
                  /\ lastResult.score =
                        Cardinality({i \in known : PicksCorrect(SubmittedQuiz, answers[i])})
                  /\ \A i \in known :
                        \E r \in Range(SubmittedAttempt.responses) :
                            /\ r.question_id = answers[i].question_id
                            /\ r.selected_option_id = answers[i].selected_option_id

\* an answer to an unknown question followed by a correct answer: one line, score 1
C11_Witness ==
    /\ Submitted
    /\ Len(lastCall.submission.answers) = 2
    /\ ~QuestionOfQuiz(SubmittedQuiz, lastCall.submission.answers[1])
    /\ PicksCorrect(SubmittedQuiz, lastCall.submission.answers[2])
    /\ Len(lastResult.correct_answers) = 1
    /\ Len(SubmittedAttempt.responses) = 1
    /\ lastResult.score = 1

\* C12: an answer to a question of the quiz whose option id is no option of
\* that question (an option of another question of the quiz included) is
\* skipped and the submission succeeds: every response selects an option of the
\* question it names, and when every answer names a question of the quiz the
\* responses and the lines are as many as the valid answers and the score
\* counts the correct ones among them.
C12_ForeignOptionSkipped ==
    ScoredCall =>
        LET answers == lastCall.submission.answers
            valid   == {i \in DOMAIN answers : ValidAnswer(SubmittedQuiz, answers[i])}
        IN  /\ lastResult.status = "ok"
            /\ \A r \in Range(SubmittedAttempt.responses) : ValidAnswer(SubmittedQuiz, r)
            /\ (\A i \in DOMAIN answers : QuestionOfQuiz(SubmittedQuiz, answers[i])) =>
                  /\ Len(SubmittedAttempt.responses) = Cardinality(valid)
                  /\ Len(lastResult.correct_answers) = Cardinality(valid)
                  /\ lastResult.score =
                        Cardinality({i \in valid : PicksCorrect(SubmittedQuiz, answers[i])})

\* an answer that selects, for the first question, an option of the second
\* question, next to a valid answer: one line
C12_Witness ==
    /\ Submitted
    /\ Len(lastCall.submission.answers) = 2
    /\ \E i \in 1..2 :
          LET a == lastCall.submission.answers[i] IN
          /\ QuestionOfQuiz(SubmittedQuiz, a)
          /\ ~ValidAnswer(SubmittedQuiz, a)
          /\ \E o \in OptionsOf(SubmittedQuiz) : o.id = a.selected_option_id
    /\ \E i \in 1..2 : ValidAnswer(SubmittedQuiz, lastCall.submission.answers[i])
    /\ Len(lastResult.correct_answers) = 1
    /\ Len(SubmittedAttempt.responses) = 1

-----------------------------------------------------------------------------
(* Properties of the transaction of a submission (TxnSpec) *)

\* C13: when the flush, an iteration of the scoring loop or the commit fails,
\* the submission returns None and the committed rows are what they were: the
\* attempts committed before are unchanged and none of the committed rows is
\* the attempt of this submission or carries one of its responses.
C13_FailureRollsBack ==
    [][ ( /\ session'.pc = "closed"
          /\ lastCall'.op = "submit_quiz_answers"
          /\ lastCall'.failed_step \in {"flush", "add", "commit"} )
        => /\ lastResult'.status = "none"
           /\ attempts' = attempts
           /\ session.pc = "scoring" =>
                 \A attempt \in Range(attempts') :
                    /\ attempt.id # session.attempt_id
                    /\ \A r \in Range(attempt.responses) :
                          r.attempt_id # session.attempt_id ]_vars

\* the commit of a submission with a recorded answer failed, after an attempt
\* had been committed before
C13_Witness ==
    /\ lastCall.op = "submit_quiz_answers"
    /\ lastCall.failed_step = "commit"
    /\ Len(lastCall.submission.answers) >= 1
    /\ ValidAnswer(quizzes[1], lastCall.submission.answers[1])
    /\ lastResult.status = "none"
    /\ session.pc = "closed"
    /\ Len(attempts) = 1
    /\ attempts[1].score = 5

-----------------------------------------------------------------------------
(* Properties of the routes (RouteSpec) *)

\* C14: a submission whose quiz id is not the quiz id of the path is answered
\* with HTTP 400 without a call of the service, a submission that names no
\* existing quiz is answered with HTTP 400 after the service returned None, and
\* in both cases the committed attempts, with their responses, are unchanged.
C14_QuizReferenceRejected ==
    [][ lastCall'.op = "submit_quiz" =>
          /\ lastCall'.quiz_id # lastCall'.submission.quiz_id =>
                /\ lastResult'.status = "http400"
                /\ ~lastCall'.service_called
                /\ attempts' = attempts
          /\ QuizIndex(quizzes, lastCall'.submission.quiz_id) = 0 =>
                /\ lastResult'.status = "http400"
                /\ attempts' = attempts ]_vars

\* a submission to an existing quiz under the path of another id, rejected
\* after an attempt was committed
C14_Witness ==
    /\ lastCall.op = "submit_quiz"
    /\ lastCall.quiz_id # lastCall.submission.quiz_id
    /\ QuizIndex(quizzes, lastCall.submission.quiz_id) # 0
    /\ lastResult.status = "http400"
    /\ Len(attempts) = 1

\* C15: the attempts listed for a quiz are the attempts committed for it, each
\* with its score, and the attempt of a later submission (the greater id)
\* precedes the attempt of an earlier one.
C15_NewestFirst ==
    (lastCall.op = "get_quiz_attempts" /\ lastResult.status = "ok") =>
        LET listed == lastResult.attempts IN
        /\ Len(listed) = Cardinality({i \in DOMAIN attempts :
                                        attempts[i].quiz_id = lastCall.quiz_id})
        /\ \A i \in DOMAIN attempts :
              attempts[i].quiz_id = lastCall.quiz_id =>
                 \E k \in DOMAIN listed : listed[k] = attempts[i]
        /\ \A i, j \in DOMAIN listed : i < j => listed[i].id > listed[j].id

-----------------------------------------------------------------------------
(* Properties of the percentage (PercentSpec) *)

Abs(x) == IF x < 0 THEN -x ELSE x

\* C16: the percentage, in hundredths of a percent, is a multiple of one
\* hundredth nearest to correct_count / total x 100 (at most half a hundredth
\* away from it), and it is 0 when the quiz has no question.
C16_PercentageRounded ==
    (lastCall.op = "percentage" /\ lastResult.status = "ok") =>
        LET c == lastCall.correct_count
            n == lastCall.total
            p == lastResult.percentage
        IN  /\ n = 0 => p = 0
            /\ n > 0 => 2 * Abs(p * n - c * 100 * 100) <= n

\* 2 of 3 is 66.67 percent: the third decimal place rounds up
C16_Witness ==
    /\ lastCall.op = "percentage"
    /\ lastCall.correct_count = 2
    /\ lastCall.total = 3
    /\ lastResult.status = "ok"
    /\ lastResult.percentage = 6667

-----------------------------------------------------------------------------
(* Properties of GeminiService on response texts (GatewaySpec) *)

\* the payload of the last response is the text of a JSON document
PayloadIsDocument == \E d \in Documents : d.text = lastCall.response.payload
PayloadDocument == CHOOSE d \in Documents : d.text = lastCall.response.payload

\* C17: generate_quiz returns None or a candidate and nothing else: None when
\* the model call raised, when the text is empty, when the payload is no JSON
\* document, when the document has not the shape of a quiz and when the quiz
\* breaks a business rule or has not the requested number of questions; a
\* returned candidate is the quiz of the payload, well-formed and of the
\* requested number of questions.
C17_GatewayNoneOrCandidate ==
    lastCall.op = "gemini.generate_quiz" =>
        LET response == lastCall.response IN
        /\ lastResult.status \in {"none", "ok"}
        /\ response.raised => lastResult.status = "none"
        /\ response.text = <<>> => lastResult.status = "none"
        /\ ~PayloadIsDocument => lastResult.status = "none"
        /\ (PayloadIsDocument /\ PayloadDocument.shape # "quiz") => lastResult.status = "none"
        /\ ( /\ PayloadIsDocument
             /\ PayloadDocument.shape = "quiz"
             /\ \/ Len(PayloadDocument.quiz.questions) # lastCall.expected
                \/ \E q \in Range(PayloadDocument.quiz.questions) : ~QuestionRulesHold(q) )
              => lastResult.status = "none"
        /\ lastResult.status = "ok" =>
              /\ PayloadIsDocument
              /\ PayloadDocument.shape = "quiz"
              /\ lastResult.quiz = PayloadDocument.quiz
              /\ Len(lastResult.quiz.questions) = lastCall.expected
              /\ \A q \in Range(lastResult.quiz.questions) : QuestionRulesHold(q)

\* a quiz of five questions in a json fence, returned for a request of five
C17_Witness ==
    /\ lastCall.op = "gemini.generate_quiz"
    /\ lastCall.response.wrapper = "json"
    /\ lastCall.expected = 5
    /\ lastResult.status = "ok"
    /\ Len(lastResult.quiz.questions) = 5

\* the last response with the payload sent as it is
Unwrapped == [lastCall.response EXCEPT !.text = lastCall.response.payload]

\* C18: a response that is a payload in a fence, with a tag or without, gives
\* what the payload alone gives, in generate_quiz and in
\* explain_incorrect_answers.
C18_FenceTransparent ==
    /\ ( /\ lastCall.op = "gemini.generate_quiz"
         /\ lastCall.response.wrapper \in FenceWrappers ) =>
           LET quiz == generate_quiz(Unwrapped, lastCall.expected) IN
           /\ lastResult.status = (IF quiz.ok THEN "ok" ELSE "none")
           /\ lastResult.quiz = quiz.value
    /\ ( /\ lastCall.op = "gemini.explain_incorrect_answers"
         /\ lastCall.response.wrapper \in FenceWrappers ) =>
           LET feedback == explain_incorrect_answers(Unwrapped) IN
           /\ lastResult.status = (IF feedback.ok THEN "ok" ELSE "none")
           /\ lastResult.items = feedback.items

-----------------------------------------------------------------------------
(* Properties of the feedback route (FeedbackSpec) *)

FeedbackOnExistingQuiz ==
    /\ lastCall.op = "get_quiz_feedback"
    /\ \E quiz \in Range(quizzes) : quiz.id = lastCall.quiz_id

\* C19: feedback on an existing quiz always succeeds; when there is no service
\* instance or the explain call returns None, the response has one item for
\* every item of the request, in the order of the request, with the question
\* id of that item and an explanation that contains the chosen label and text
\* and the correct label and text as they were sent.
C19_FallbackFeedback ==
    FeedbackOnExistingQuiz =>
        /\ lastResult.status = "ok"
        /\ (~gemini_service \/ ~explain_incorrect_answers(lastCall.response).ok) =>
              LET sent == lastCall.payload.items
                  got  == lastResult.items
              IN  /\ Len(got) = Len(sent)
                  /\ \A k \in DOMAIN sent :
                        /\ got[k].question_id = sent[k].question_id
                        /\ Contains(sent[k].user_selected \o <<".", " ">>
                                        \o sent[k].user_selected_text,
                                    got[k].explanation)
                        /\ Contains(sent[k].correct_option \o <<".", " ">>
                                        \o sent[k].correct_text,
                                    got[k].explanation)

\* the model call raised for a request of two mismatches: two items, the
\* first for the first mismatch
C19_Witness ==
    /\ FeedbackOnExistingQuiz
    /\ gemini_service
    /\ lastCall.model_called
    /\ lastCall.response.raised
    /\ Len(lastCall.payload.items) = 2
    /\ lastResult.status = "ok"
    /\ Len(lastResult.items) = 2
    /\ lastResult.items[1].question_id = lastCall.payload.items[1].question_id

\* C20: a feedback request for an id of no quiz is answered with HTTP 404 and
\* the model is not called.
C20_FeedbackNotFound ==
    (lastCall.op = "get_quiz_feedback" /\ ~FeedbackOnExistingQuiz) =>
        /\ lastResult.status = "http404"
        /\ ~lastCall.model_called
        /\ lastResult.items = <<>>

\* a request for an id of no quiz while the service exists
C20_Witness ==
    /\ lastCall.op = "get_quiz_feedback"
    /\ QuizIndex(quizzes, lastCall.quiz_id) = 0
    /\ gemini_service
    /\ Len(lastCall.payload.items) >= 1
    /\ lastResult.status = "http404"

-----------------------------------------------------------------------------
(* Properties of the generation pipeline (Spec) *)

\* an upper-case letter paired with its lower-case letter
LetterCases == {<<UpperAlpha[i], LowerAlpha[i]>> : i \in 1..26}

\* the topic is blank after trimming, longer than 100 characters or has a
\* denylisted keyword in it, in any letter case
TopicInvalid(topic) ==
    \/ \A i \in DOMAIN topic : topic[i] \in Whitespace
    \/ Len(topic) > 100
    \/ \E keyword \in inappropriate_keywords :
          \E at \in 0..(Len(topic) - Len(keyword)) :
             \A k \in DOMAIN keyword :
                \/ topic[at + k] = keyword[k]
                \/ <<topic[at + k], keyword[k]>> \in LetterCases

\* C21: a generation request for an invalid topic returns None without a call
\* of the model, and a request that does not call the model leaves the
\* committed quizzes as they were.
C21_InvalidTopicRejectedFirst ==
    /\ [] ( (lastCall.op = "generate_quiz" /\ TopicInvalid(lastCall.topic)) =>
               /\ ~lastCall.model_called
               /\ lastResult.status = "none" )
    /\ [][ (lastCall'.op = "generate_quiz" /\ ~lastCall'.model_called) =>
               quizzes' = quizzes ]_vars

\* a topic with a keyword in mixed case is rejected while the service exists,
\* after a quiz was committed
C21_Witness ==
    /\ lastCall.op = "generate_quiz"
    /\ lastCall.topic = TopicAdult
    /\ gemini_service
    /\ ~lastCall.model_called
    /\ lastResult.status = "none"
    /\ Len(quizzes) = 1

\* C22: a quiz returned by generate_quiz for a requested topic is the row
\* committed last, and its topic is the requested topic.
C22_TopicAsRequested ==
    (lastCall.op = "generate_quiz" /\ lastResult.status = "ok") =>
        /\ lastResult.quiz = quizzes[Len(quizzes)]
        /\ lastResult.quiz.topic = lastCall.topic

\* C23: when the commit or the refresh of a built quiz raises, generate_quiz
\* returns None and the committed quizzes are what they were before the request.
C23_PersistFailureLeavesNothing ==
    [][ (lastCall'.op = "generate_quiz" /\ lastCall'.db_fails # "none") =>
           /\ lastResult'.status = "none"
           /\ quizzes' = quizzes ]_vars

-----------------------------------------------------------------------------
(* Properties of concurrent submissions (ConcSpec) *)

\* the answers that name a question of the quiz and an option of that
\* question, in the order of the list
ValidAnswersOf(quiz, answers) == SelectSeq(answers, LAMBDA a : ValidAnswer(quiz, a))

\* the question and the option of every item of a list of answers or responses
Choices(items) ==
    [i \in DOMAIN items |-> <<items[i].question_id, items[i].selected_option_id>>]

\* C24: of two requests that submit to the same quiz with their steps
\* interleaved, each one that has returned has its own committed attempt, whose
\* responses are the valid answers of its own submission and whose score is
\* the number of correct answers of its own submission; when both have
\* returned there are two attempts, with different ids.
C24_ConcurrentSubmissionsIndependent ==
    /\ \A i, j \in DOMAIN attempts : attempts[i].id = attempts[j].id => i = j
    /\ (\A w \in Workers : session[w].pc = "done") => Len(attempts) = 2
    /\ \A w \in Workers :
          session[w].pc = "done" =>
             LET answers == session[w].submission.answers
                 own     == ValidAnswersOf(quizzes[1], answers)
                 correct == Cardinality({i \in DOMAIN answers :
                                            PicksCorrect(quizzes[1], answers[i])})
             IN  /\ session[w].result.status = "ok"
                 /\ session[w].result.score = correct
                 /\ \E i \in DOMAIN attempts :
                       /\ attempts[i].id = session[w].attempt_id
                       /\ attempts[i].score = correct
                       /\ Choices(attempts[i].responses) = Choices(own)
                       /\ \A r \in Range(attempts[i].responses) :
                             r.attempt_id = session[w].attempt_id

\* both requests have returned, with different scores, and the request that
\* flushed its attempt second committed first
C24_Witness ==
    /\ \A w \in Workers : session[w].pc = "done"
    /\ session["w1"].result.score # session["w2"].result.score
    /\ Len(attempts) = 2
    /\ attempts[1].id = 2
    /\ Len(attempts[1].responses) + Len(attempts[2].responses) >= 2

-----------------------------------------------------------------------------
(* Properties of the result-lines and of repeated answers (ScoreSpec) *)

\* C25: the result-lines of a scored submission are its valid answers, one
\* line for each, in the order of the submission, each with the question and
\* the letter and text of the option the answer names; a question that no
\* answer names has no line.
C25_LinesAreValidAnswersInOrder ==
    Submitted =>
        LET answers == lastCall.submission.answers
            own     == ValidAnswersOf(SubmittedQuiz, answers)
            lines   == lastResult.correct_answers
        IN  /\ Len(lines) = Len(own)
            /\ \A k \in DOMAIN lines :
                  /\ lines[k].question_id = own[k].question_id
                  /\ \E question \in Range(SubmittedQuiz.questions) :
                        /\ question.id = own[k].question_id
                        /\ \E o \in Range(question.options) :
                              /\ o.id = own[k].selected_option_id
                              /\ lines[k].user_selected = <<o.option_letter>>
                              /\ lines[k].user_selected_text = o.option_text
            /\ \A question \in Range(SubmittedQuiz.questions) :
                  (\A a \in Range(answers) : a.question_id # question.id) =>
                      \A line \in Range(lines) : line.question_id # question.id

\* two valid answers, the second question answered before the first: two
\* lines in that order, for a quiz of five questions
C25_Witness ==
    /\ Submitted
    /\ Len(lastCall.submission.answers) = 2
    /\ \A a \in Range(lastCall.submission.answers) : ValidAnswer(SubmittedQuiz, a)
    /\ lastCall.submission.answers[1].question_id = SubmittedQuiz.questions[2].id
    /\ lastCall.submission.answers[2].question_id = SubmittedQuiz.questions[1].id
    /\ Len(lastResult.correct_answers) = 2
    /\ lastResult.correct_answers[1].question_id = SubmittedQuiz.questions[2].id
    /\ lastResult.total_questions = 5

\* C26: whatever the answer list, repeated questions included, the score of
\* the result and of the committed attempt lies between 0 and
\* total_questions, and the percentage (in hundredths of a percent) between
\* 0 and 100.
C26_ScoreWithinTotal ==
    Submitted =>
        /\ 0 <= lastResult.score
        /\ lastResult.score <= lastResult.total_questions
        /\ 0 <= SubmittedAttempt.score
        /\ SubmittedAttempt.score <= SubmittedAttempt.total_questions
        /\ 0 <= lastResult.percentage
        /\ lastResult.percentage <= 100 * 100

\* C27: a committed attempt has at most one UserResponse for a question, so
\* it has no more UserResponses, and its result no more lines, than the quiz
\* has questions.
C27_OneResponsePerQuestion ==
    /\ \A attempt \in Range(attempts) :
          /\ \A i, j \in DOMAIN attempt.responses :
                attempt.responses[i].question_id = attempt.responses[j].question_id => i = j
          /\ Len(attempt.responses) <= attempt.total_questions
    /\ Submitted => Len(lastResult.correct_answers) <= lastResult.total_questions

-----------------------------------------------------------------------------
(* Properties of the items of a feedback response (FeedbackSpec) *)

\* C28: a feedback response, from the model or from the fallback, has exactly
\* one item for every mismatch of the request and no item whose question id
\* is not the question id of a mismatch of the request.
C28_OneItemPerMismatch ==
    (lastCall.op = "get_quiz_feedback" /\ lastResult.status = "ok") =>
        LET sent == lastCall.payload.items
            got  == lastResult.items
        IN  /\ \A m \in Range(sent) :
                  Cardinality({k \in DOMAIN got : got[k].question_id = m.question_id}) = 1
            /\ \A item \in Range(got) :
                  \E m \in Range(sent) : m.question_id = item.question_id

-----------------------------------------------------------------------------
(* Properties of quizzes generated and then answered (FlowSpec) *)

\* C29: for a quiz that the generation pipeline persisted, every result-line
\* of a submission names, by letter and text, an option of the answered
\* question that is flagged correct; the placeholder N/A is never used.
C29_CorrectOptionNamed ==
    Submitted =>
        \A line \in Range(lastResult.correct_answers) :
            /\ line.correct_option # NotApplicable
            /\ \E question \in Range(SubmittedQuiz.questions) :
                  /\ question.id = line.question_id
                  /\ \E o \in Range(question.options) :
                        /\ o.is_correct
                        /\ line.correct_option = <<o.option_letter>>
                        /\ line.correct_text = o.option_text

\* the second generated quiz, whose last question has the correct option D,
\* is answered wrongly on that question
C29_Witness ==
    /\ Submitted
    /\ Len(quizzes) = 2
    /\ lastCall.submission.quiz_id = 2
    /\ Len(lastResult.correct_answers) = 1
    /\ ~lastResult.correct_answers[1].is_correct
    /\ lastResult.correct_answers[1].question_id = quizzes[2].questions[num_questions].id
    /\ lastResult.correct_answers[1].correct_option = <<"D">>

-----------------------------------------------------------------------------
(* Properties of the validator under a configured number of options         *)
(* (ConfiguredSpec)                                                         *)

\* C30: the option count is compared with the configured
\* options-per-question and the letters with the literal A, B, C, D: whatever
\* is accepted has the configured number of options in every question, with
\* the setting 4 the validator decides as it does by default, and with any
\* other setting every candidate of at least one question is rejected.
C30_OtherSettingRejectsAll ==
    pc = "validated" =>
        LET setting == lastCall.default_options_per_question IN
        /\ accepted =>
              \A q \in Range(quiz_response.questions) : Len(q.options) = setting
        /\ setting = 4 =>
              accepted = _validate_quiz_business_rules(quiz_response, expected_questions)
        /\ (setting # 4 /\ Len(quiz_response.questions) >= 1) => ~accepted

\* with the setting 3, five questions that each have the three options A, B,
\* C with a text and the correct answer A are rejected
C30_Witness ==
    /\ pc = "validated"
    /\ lastCall.default_options_per_question = 3
    /\ expected_questions = num_questions
    /\ Len(quiz_response.questions) = num_questions
    /\ \A q \in Range(quiz_response.questions) : q = QuestionOfSize(3)
    /\ ~accepted

====
